---- MODULE Spec2Model ----
(***************************************************************************)
(* Document / Patch / Version engine of UnifiedAIAgent                     *)
(* (backend/app/services/ai/unified_agent.py).                             *)
(*                                                                         *)
(* Python objects that are shared by reference are kept in heaps:          *)
(*   dicts : the dict objects used as style / position / size maps,        *)
(*   docs  : the DocumentModel objects (their Block list is owned by one   *)
(*           DocumentModel, so blocks are stored inside the document).     *)
(* A field holding a dict is an address (an index) into dicts, so that two *)
(* fields that reference the same Python dict hold the same address.       *)
(* Timestamps (datetime.now()) are not modelled.                           *)
(***************************************************************************)
EXTENDS Integers, Sequences, FiniteSets, TLC

VARIABLES
    dicts,                  \* heap of dict objects: address -> key/value map
    uuid_count,             \* number of uuid.uuid4() values drawn so far
    docs,                   \* heap of DocumentModel objects
    document_versions,      \* self.document_versions: doc id -> list of DocumentVersion
    current_version_index,  \* self.current_version_index: doc id -> cursor (0-based)
    live,                   \* the DocumentModel objects the caller built with from_dict
    taken,                  \* the object the latest undo or redo returned (0: none)
    last,                   \* the most recent call: arguments, result, state before/after
    trail,                  \* per doc id: what kind of call sequence it has seen so far
    calls,                  \* number of from_dict / save_version / apply_patch calls
    nops,                   \* number of patch operations applied so far
    undos,                  \* number of undo calls
    telemetry,              \* self.telemetry
    reply,                  \* the most recent _parse_intent / get_suggestions /
                            \* process_command call: arguments and result
    issued,                 \* the Suggestions get_suggestions returned that are not
                            \* the fallback: their number, in all and per intent
    asks,                   \* number of get_suggestions and process_command calls
    saving                  \* the save_version calls that run in two threads: the
                            \* statement each is at and its local variables

vars == <<dicts, uuid_count, docs, document_versions, current_version_index,
          live, taken, last, trail, calls, nops, undos, telemetry, reply, issued, asks,
          saving>>

\* The variables of the suggestion side of the agent
aivars == <<telemetry, reply, issued, asks>>

\* The DocumentModel objects the caller can pass to the agent
Held == live \cup ({taken} \ {0})

-----------------------------------------------------------------------------
(* Bounds of the model *)

MaxCalls == 3      \* from_dict + save_version + apply_patch calls in one run
MaxOps == 2        \* patch operations over all patches of one run
MaxUndos == 1      \* undo calls in one run
CapCalls == 53     \* calls in a run of the retention specification
CapUndos == 1      \* undo calls in a run of the retention specification
MaxAsks == 1       \* get_suggestions + process_command calls in one run
MaxWords == 2      \* words of a command sent to _parse_intent
RaceCalls == 3     \* from_dict + save_version calls before the two threads start
ReplayCalls == 3   \* from_dict + apply_patch calls in a run of the replay specification
ReplayOps == 2     \* operations of a patch in the replay specification
IsoCalls == 4      \* from_dict + save_version + apply_patch calls in a run of the two-document specification
IsoOps == 1        \* operations of a patch in the two-document specification
MaxFeedback == 2   \* accept_suggestion + reject_suggestion calls in one run

(* Program constants *)

HistoryLimit == 50             \* "Limit history to 50 versions"
DefaultWidth == 1200
DefaultHeight == 628

-----------------------------------------------------------------------------
(* Python values *)

Null == "null"                              \* None
EmptyDict == [k \in {} |-> Null]            \* {}

\* d.get(k, default)
Get(d, k, default) == IF k \in DOMAIN d THEN d[k] ELSE default

\* d.update(e): the keys of e overwrite, the other keys of d stay
DictUpdate(d, e) ==
    [k \in (DOMAIN d) \cup (DOMAIN e) |-> IF k \in DOMAIN e THEN e[k] ELSE d[k]]

\* str(uuid.uuid4()): a value never returned before
Uuid(n) == "uuid-" \o ToString(n)

DefaultDimensions == [width |-> DefaultWidth, height |-> DefaultHeight]

\* PatchOperation
REPLACE_TEXT == "replace_text"
UPDATE_STYLE == "update_style"
MOVE_BLOCK == "move_block"
ADD_BLOCK == "add_block"
DELETE_BLOCK == "delete_block"
CHANGE_LAYOUT == "change_layout"

\* A Python truth test of a dict: the empty dict is falsy
Truthy(d) == DOMAIN d # {}

-----------------------------------------------------------------------------
(* Document model: DocumentModel.to_dict / DocumentModel.from_dict *)

\* A memory is the part of the heap a constructor allocates in:
\* [dicts |-> the dict heap, uuid |-> the uuid counter].
\* A builder is a block list under construction:
\* [blocks, mem, id, style, position, size], the last four being the arguments
\* of the Block(...) call that is being evaluated.

\* A fresh dict object holding d; its address is Len of the new heap
AllocDict(mem, d) == [mem EXCEPT !.dicts = Append(@, d)]

NewBuilder(blocks, mem) ==
    [blocks |-> blocks, mem |-> mem, id |-> Null, style |-> 0, position |-> 0, size |-> 0]

\* id=d.get("id", str(uuid.uuid4()))
ArgId(d, acc) ==
    IF "id" \in DOMAIN d THEN [acc EXCEPT !.id = d.id]
    ELSE [acc EXCEPT !.mem.uuid = @ + 1, !.id = Uuid(acc.mem.uuid + 1)]

\* field=d.get(key, {}): the object stored under key, or a new {} object
ArgDict(d, key, field, acc) ==
    IF key \in DOMAIN d THEN [acc EXCEPT ![field] = d[key]]
    ELSE [acc EXCEPT !.mem = AllocDict(@, EmptyDict), ![field] = Len(acc.mem.dicts) + 1]

\* Variant: the size is always taken from the position
ArgSizeFromPosition(b, acc) == ArgDict(b, "position", "size", acc)

\* size=b.get("size", b.get("position", {}))  # Use position as fallback for size
ArgSize(b, acc) ==
    IF "size" \in DOMAIN b THEN ArgDict(b, "size", "size", acc)
    ELSE ArgDict(b, "position", "size", acc)

\* Block(id, type, text, style, position, size) appended to the list
PushBlock(d, acc) ==
    [acc EXCEPT !.blocks = Append(@, [id |-> acc.id,
                                      type |-> Get(d, "type", "text"),
                                      text |-> Get(d, "text", Null),
                                      style |-> acc.style,
                                      position |-> acc.position,
                                      size |-> acc.size])]

\* The Block from_dict builds from the dict b of one block
from_dict_block(b, acc) ==
    PushBlock(b, ArgSize(b, ArgDict(b, "position", "position",
                 ArgDict(b, "style", "style", ArgId(b, acc)))))

\* [Block(...) for b in data.get("blocks", [])]
RECURSIVE from_dict_blocks(_, _)
from_dict_blocks(bs, acc) ==
    IF bs = <<>> THEN acc
    ELSE from_dict_blocks(Tail(bs), from_dict_block(Head(bs), acc))

\* cls(id=..., blocks=blocks, layout=..., meta=..., background=..., dimensions=...)
from_dict_document(data, built) ==
    [doc |-> [id |-> IF "id" \in DOMAIN data THEN data.id ELSE Uuid(built.mem.uuid + 1),
              blocks |-> built.blocks,
              layout |-> Get(data, "layout", "center"),
              meta |-> Get(data, "meta", EmptyDict),
              background |-> Get(data, "background", EmptyDict),
              dimensions |->
                 IF "dimensions" \in DOMAIN data /\ Truthy(data.dimensions)
                 THEN data.dimensions
                 ELSE IF "canvas" \in DOMAIN data /\ Truthy(data.canvas) THEN data.canvas
                 ELSE DefaultDimensions],
     mem |-> IF "id" \in DOMAIN data THEN built.mem
             ELSE [built.mem EXCEPT !.uuid = @ + 1]]

\* DocumentModel.from_dict(data): [doc |-> the new DocumentModel, mem |-> memory after]
from_dict(data, mem) ==
    from_dict_document(data,
        from_dict_blocks(Get(data, "blocks", <<>>), NewBuilder(<<>>, mem)))

\* DocumentModel.to_dict(): the dict of a document; the style, position and
\* size entries are the block's own dict objects (their addresses)
to_dict(doc) ==
    [id |-> doc.id,
     blocks |-> [i \in 1..Len(doc.blocks) |->
                    [id |-> doc.blocks[i].id,
                     type |-> doc.blocks[i].type,
                     text |-> doc.blocks[i].text,
                     style |-> doc.blocks[i].style,
                     position |-> doc.blocks[i].position,
                     size |-> doc.blocks[i].size]],
     layout |-> doc.layout,
     meta |-> doc.meta,
     background |-> doc.background,
     dimensions |-> doc.dimensions]

\* The structure of a document: every dict field replaced by its content
BlockValue(b, heap) ==
    [id |-> b.id, type |-> b.type, text |-> b.text,
     style |-> heap[b.style], position |-> heap[b.position], size |-> heap[b.size]]

DocValue(doc, heap) ==
    [id |-> doc.id,
     blocks |-> [i \in 1..Len(doc.blocks) |-> BlockValue(doc.blocks[i], heap)],
     layout |-> doc.layout,
     meta |-> doc.meta,
     background |-> doc.background,
     dimensions |-> doc.dimensions]

NoDoc == [id |-> Null, blocks |-> <<>>, layout |-> Null, meta |-> EmptyDict,
          background |-> EmptyDict, dimensions |-> EmptyDict]

-----------------------------------------------------------------------------
(* Request bodies: the JSON a caller sends (main.py) *)

\* json parsing makes a dict object of the dict stored under key k, if any.
\* A loader is [value |-> the parsed dict or list so far, mem |-> memory]
LoadDictField(acc, k) ==
    IF k \in DOMAIN acc.value
    THEN [value |-> [x \in DOMAIN acc.value |->
                        IF x = k THEN Len(acc.mem.dicts) + 1 ELSE acc.value[x]],
          mem |-> AllocDict(acc.mem, acc.value[k])]
    ELSE acc

\* The style, position and size dicts of a block or of an add_block payload
LoadDictFields(d, mem) ==
    LoadDictField(LoadDictField(LoadDictField([value |-> d, mem |-> mem],
        "style"), "position"), "size")

PushLoaded(list, item) == [value |-> Append(list, item.value), mem |-> item.mem]

RECURSIVE LoadBlocks(_, _)
LoadBlocks(bs, acc) ==
    IF bs = <<>> THEN acc
    ELSE LoadBlocks(Tail(bs), PushLoaded(acc.value, LoadDictFields(Head(bs), acc.mem)))

WithBlocks(raw, bs) ==
    [value |-> [x \in DOMAIN raw |-> IF x = "blocks" THEN bs.value ELSE raw[x]],
     mem |-> bs.mem]

\* request.get_json() of a document body
LoadDocument(raw, mem) ==
    WithBlocks(raw, LoadBlocks(Get(raw, "blocks", <<>>), [value |-> <<>>, mem |-> mem]))

\* PatchOp(operation=..., block_id=..., data=..., reason=...)
LoadOperation(op, data) ==
    [value |-> [operation |-> op.operation, block_id |-> op.block_id,
                data |-> data.value, reason |-> Get(op, "reason", "")],
     mem |-> data.mem]

RECURSIVE LoadOperations(_, _)
LoadOperations(ops, acc) ==
    IF ops = <<>> THEN acc
    ELSE LoadOperations(Tail(ops),
            PushLoaded(acc.value,
                LoadOperation(Head(ops),
                    LoadDictFields(Get(Head(ops), "data", EmptyDict), acc.mem))))

\* Patch(id=..., operations=..., timestamp=..., description=..., confidence=...)
PatchOf(raw, ops) ==
    [value |-> [id |-> Get(raw, "id", ""),
                operations |-> ops.value,
                description |-> Get(raw, "description", ""),
                confidence |-> Get(raw, "confidence", 100)],
     mem |-> ops.mem]

\* The Patch the apply-patch route builds from the request body
LoadPatch(raw, mem) ==
    PatchOf(raw, LoadOperations(Get(raw, "operations", <<>>), [value |-> <<>>, mem |-> mem]))

NoPatch == [id |-> Null, operations |-> <<>>, description |-> Null, confidence |-> 0]

-----------------------------------------------------------------------------
(* Patch applier: the loop of UnifiedAIAgent.apply_patch *)

\* The loop works on st = [doc |-> the DocumentModel, mem |-> memory]

\* for block in doc.blocks: if block.id == block_id: ... break
\* the index of the first block with that id, 0 when there is none
FirstIndex(blocks, block_id) ==
    IF \E i \in 1..Len(blocks) : blocks[i].id = block_id
    THEN CHOOSE i \in 1..Len(blocks) :
            /\ blocks[i].id = block_id
            /\ \A j \in 1..(i - 1) : blocks[j].id # block_id
    ELSE 0

\* [b for b in doc.blocks if b.id != block_id]
RECURSIVE WithoutId(_, _)
WithoutId(blocks, block_id) ==
    IF blocks = <<>> THEN <<>>
    ELSE IF Head(blocks).id # block_id
         THEN <<Head(blocks)>> \o WithoutId(Tail(blocks), block_id)
         ELSE WithoutId(Tail(blocks), block_id)

\* block.text = op.data.get("new_text", block.text)
SetText(st, i, data) ==
    IF i = 0 THEN st ELSE [st EXCEPT !.doc.blocks[i].text = Get(data, "new_text", @)]

\* block.style.update(op.data) / block.position.update(op.data), on the dict
\* object at address addr
UpdateDict(st, addr, data) ==
    IF addr = 0 THEN st ELSE [st EXCEPT !.mem.dicts[addr] = DictUpdate(@, data)]

AddrOf(blocks, i, field) == IF i = 0 THEN 0 ELSE blocks[i][field]

\* Variant: replace_text adds the new text to the text of the block
replace_text_appending(st, op) ==
    IF FirstIndex(st.doc.blocks, op.block_id) = 0 THEN st
    ELSE [st EXCEPT !.doc.blocks[FirstIndex(st.doc.blocks, op.block_id)].text =
                        @ \o Get(op.data, "new_text", "")]
replace_text(st, op) ==
    SetText(st, FirstIndex(st.doc.blocks, op.block_id), op.data)

update_style(st, op) ==
    UpdateDict(st, AddrOf(st.doc.blocks, FirstIndex(st.doc.blocks, op.block_id), "style"),
               op.data)

move_block(st, op) ==
    UpdateDict(st, AddrOf(st.doc.blocks, FirstIndex(st.doc.blocks, op.block_id), "position"),
               op.data)

\* doc.blocks.append(new_block)
SetBlocks(st, built) == [st EXCEPT !.doc.blocks = built.blocks, !.mem = built.mem]

\* new_block = Block(id=op.data.get("id", uuid), ..., size=op.data.get("size", {}))
add_block(st, op) ==
    SetBlocks(st,
        PushBlock(op.data,
            ArgDict(op.data, "size", "size",
                ArgDict(op.data, "position", "position",
                    ArgDict(op.data, "style", "style",
                        ArgId(op.data, NewBuilder(st.doc.blocks, st.mem)))))))

delete_block(st, op) ==
    [st EXCEPT !.doc.blocks = WithoutId(@, op.block_id)]

change_layout(st, op) ==
    [st EXCEPT !.doc.layout = Get(op.data, "layout", @)]

\* the if / elif chain over op.operation
apply_op(st, op) ==
    CASE op.operation = REPLACE_TEXT -> replace_text(st, op)
      [] op.operation = UPDATE_STYLE -> update_style(st, op)
      [] op.operation = MOVE_BLOCK -> move_block(st, op)
      [] op.operation = ADD_BLOCK -> add_block(st, op)
      [] op.operation = DELETE_BLOCK -> delete_block(st, op)
      [] op.operation = CHANGE_LAYOUT -> change_layout(st, op)
      [] OTHER -> st

\* Variant: the operations of a patch applied last to first
RECURSIVE apply_operations_reversed(_, _)
apply_operations_reversed(st, ops) ==
    IF ops = <<>> THEN st
    ELSE apply_op(apply_operations_reversed(st, Tail(ops)), Head(ops))

\* Variant: the loop ends at the first operation whose block id matches no block
RECURSIVE apply_operations_abort(_, _)
apply_operations_abort(st, ops) ==
    IF ops = <<>> THEN st
    ELSE IF /\ Head(ops).operation \in {REPLACE_TEXT, UPDATE_STYLE, MOVE_BLOCK, DELETE_BLOCK}
            /\ FirstIndex(st.doc.blocks, Head(ops).block_id) = 0
         THEN st
         ELSE apply_operations_abort(apply_op(st, Head(ops)), Tail(ops))

\* for op in patch.operations: ...
RECURSIVE apply_operations(_, _)
apply_operations(st, ops) ==
    IF ops = <<>> THEN st
    ELSE apply_operations(apply_op(st, Head(ops)), Tail(ops))

-----------------------------------------------------------------------------
(* Version store: save_version, undo, redo, get_history *)

\* The agent's state as the methods read and write it
Store ==
    [document_versions |-> document_versions,
     current_version_index |-> current_version_index,
     docs |-> docs,
     mem |-> [dicts |-> dicts, uuid |-> uuid_count]]

\* Variant: the first save of a document starts every history anew
EnsureHistoryOfAll(store, doc_id) ==
    IF doc_id \in DOMAIN store.document_versions THEN store
    ELSE [store EXCEPT
            !.document_versions = [d \in DOMAIN @ \cup {doc_id} |-> <<>>],
            !.current_version_index = [d \in DOMAIN @ \cup {doc_id} |-> -1]]

\* if doc_id not in self.document_versions: ... = []; ... = -1
EnsureHistory(store, doc_id) ==
    IF doc_id \in DOMAIN store.document_versions THEN store
    ELSE [store EXCEPT !.document_versions = (doc_id :> <<>>) @@ @,
                       !.current_version_index = (doc_id :> -1) @@ @]

\* Variant: the versions beyond the cursor are kept
TruncateNothing(store, doc_id) == store

\* self.document_versions[doc_id] = self.document_versions[doc_id][:current_idx + 1]
Truncate(store, doc_id) ==
    [store EXCEPT !.document_versions[doc_id] =
        SubSeq(@, 1, store.current_version_index[doc_id] + 1)]

\* The DocumentModel object of the new version is put on the heap
PutDocument(store, built) ==
    [store EXCEPT !.docs = Append(@, built.doc), !.mem = built.mem]

\* DocumentModel.from_dict(doc.to_dict())  # Deep copy
CopyDocument(store, doc) == PutDocument(store, from_dict(to_dict(doc), store.mem))

\* version_id=str(uuid.uuid4())
DrawUuid(store) == [store EXCEPT !.mem.uuid = @ + 1]

\* Variant: the cursor is set to the last index the list had before the append
AppendVersionStaleCursor(store, doc_id, patch, description) ==
    [store EXCEPT
        !.document_versions[doc_id] =
            Append(@, [version_id |-> Uuid(store.mem.uuid),
                       document |-> Len(store.docs),
                       patch_applied |-> patch,
                       description |-> description]),
        !.current_version_index[doc_id] = Len(store.document_versions[doc_id]) - 1]

\* version = DocumentVersion(...); self.document_versions[doc_id].append(version)
\* self.current_version_index[doc_id] = len(self.document_versions[doc_id]) - 1
\* The copy of the document is the newest object of the heap.
AppendVersion(store, doc_id, patch, description) ==
    [store EXCEPT
        !.document_versions[doc_id] =
            Append(@, [version_id |-> Uuid(store.mem.uuid),
                       document |-> Len(store.docs),
                       patch_applied |-> patch,
                       description |-> description]),
        !.current_version_index[doc_id] = Len(store.document_versions[doc_id])]

\* Variant: the history is never limited
LimitHistoryNever(store, doc_id) == store

\* Variant: the oldest version is evicted and the cursor is left where it was
LimitHistoryKeepCursor(store, doc_id) ==
    IF Len(store.document_versions[doc_id]) > HistoryLimit
    THEN [store EXCEPT !.document_versions[doc_id] = Tail(@)]
    ELSE store

\* if len(versions) > 50: versions.pop(0); self.current_version_index[doc_id] -= 1
LimitHistory(store, doc_id) ==
    IF Len(store.document_versions[doc_id]) > HistoryLimit
    THEN [store EXCEPT !.document_versions[doc_id] = Tail(@),
                       !.current_version_index[doc_id] = @ - 1]
    ELSE store

\* save_version(doc, patch, description)
save_version(store, doc, patch, description) ==
    LimitHistory(
        AppendVersion(
            CopyDocument(DrawUuid(Truncate(EnsureHistory(store, doc.id), doc.id)), doc),
            doc.id, patch, description),
        doc.id)

\* The statements of save_version, for calls that run in two threads. A
\* call keeps its local variables in a frame [pc, doc, current_idx, version].

\* current_idx = self.current_version_index[doc_id]
ReadCursor(store, doc_id) == store.current_version_index[doc_id]

\* Variant: the version under the cursor is cut off as well
TruncateAtBelow(store, doc_id, current_idx) ==
    [store EXCEPT !.document_versions[doc_id] = SubSeq(@, 1, current_idx)]

\* self.document_versions[doc_id] = self.document_versions[doc_id][:current_idx + 1]
\* A slice with a negative end (current_idx = -1 gives [:0]) is modelled for
\* current_idx >= -1 only, the values the cursor takes.
TruncateAt(store, doc_id, current_idx) ==
    [store EXCEPT !.document_versions[doc_id] = SubSeq(@, 1, current_idx + 1)]

\* version = DocumentVersion(version_id=str(uuid.uuid4()),
\*                           document=DocumentModel.from_dict(doc.to_dict()), ...)
NewVersion(store) ==
    [version_id |-> Uuid(store.mem.uuid), document |-> Len(store.docs),
     patch_applied |-> NoPatch, description |-> ""]

\* self.document_versions[doc_id].append(version)
AppendOnly(store, doc_id, version) ==
    [store EXCEPT !.document_versions[doc_id] = Append(@, version)]

\* self.current_version_index[doc_id] = len(self.document_versions[doc_id]) - 1
SetCursor(store, doc_id) ==
    [store EXCEPT !.current_version_index[doc_id] = Len(store.document_versions[doc_id]) - 1]

\* The loop of apply_patch changes the object at address a in place
PatchInPlace(saved, a, st) == [saved EXCEPT !.docs[a] = st.doc, !.mem = st.mem]

RunOperations(saved, a, patch) ==
    PatchInPlace(saved, a,
        apply_operations([doc |-> saved.docs[a], mem |-> saved.mem], patch.operations))

\* apply_patch(doc, patch) on the DocumentModel object at address a; it returns a
apply_patch(store, a, patch) ==
    RunOperations(save_version(store, store.docs[a], patch, patch.description), a, patch)

Versions(store, doc_id) ==
    IF doc_id \in DOMAIN store.document_versions
    THEN store.document_versions[doc_id] ELSE <<>>

\* Variant: undo starts a history for a document id it does not know
undo_creating(store, doc_id) ==
    IF doc_id \notin DOMAIN store.document_versions
    THEN [store |-> EnsureHistory(store, doc_id), ret |-> 0]
    ELSE IF store.current_version_index[doc_id] > 0
         THEN [store |-> [store EXCEPT !.current_version_index[doc_id] = @ - 1],
               ret |-> store.document_versions[doc_id]
                          [(store.current_version_index[doc_id] - 1) + 1].document]
         ELSE [store |-> store, ret |-> 0]

\* undo(doc_id): [store |-> the agent after, ret |-> the returned object, 0 for None]
undo(store, doc_id) ==
    IF doc_id \notin DOMAIN store.document_versions
    THEN [store |-> store, ret |-> 0]
    ELSE IF store.current_version_index[doc_id] > 0
         THEN [store |-> [store EXCEPT !.current_version_index[doc_id] = @ - 1],
               ret |-> store.document_versions[doc_id]
                          [(store.current_version_index[doc_id] - 1) + 1].document]
         ELSE [store |-> store, ret |-> 0]

\* Variant: redo at the last index returns the version the cursor is on
redo_staying(store, doc_id) ==
    IF doc_id \notin DOMAIN store.document_versions
    THEN [store |-> store, ret |-> 0]
    ELSE IF store.current_version_index[doc_id] < Len(store.document_versions[doc_id]) - 1
         THEN [store |-> [store EXCEPT !.current_version_index[doc_id] = @ + 1],
               ret |-> store.document_versions[doc_id]
                          [(store.current_version_index[doc_id] + 1) + 1].document]
         ELSE [store |-> store,
               ret |-> store.document_versions[doc_id]
                          [store.current_version_index[doc_id] + 1].document]

\* redo(doc_id)
redo(store, doc_id) ==
    IF doc_id \notin DOMAIN store.document_versions
    THEN [store |-> store, ret |-> 0]
    ELSE IF store.current_version_index[doc_id] < Len(store.document_versions[doc_id]) - 1
         THEN [store |-> [store EXCEPT !.current_version_index[doc_id] = @ + 1],
               ret |-> store.document_versions[doc_id]
                          [(store.current_version_index[doc_id] + 1) + 1].document]
         ELSE [store |-> store, ret |-> 0]

\* get_history(doc_id)
get_history(store, doc_id) ==
    [i \in 1..Len(Versions(store, doc_id)) |->
        [version_id |-> Versions(store, doc_id)[i].version_id,
         description |-> Versions(store, doc_id)[i].description,
         patch_description |->
            IF Versions(store, doc_id)[i].patch_applied.id # Null
            THEN Versions(store, doc_id)[i].patch_applied.description ELSE Null]]

-----------------------------------------------------------------------------
(* Strings: str.lower() and the substring test `w in s` *)

LowerChar(c) ==
    CASE c = "A" -> "a" [] c = "B" -> "b" [] c = "C" -> "c" [] c = "D" -> "d"
      [] c = "E" -> "e" [] c = "F" -> "f" [] c = "G" -> "g" [] c = "H" -> "h"
      [] c = "I" -> "i" [] c = "J" -> "j" [] c = "K" -> "k" [] c = "L" -> "l"
      [] c = "M" -> "m" [] c = "N" -> "n" [] c = "O" -> "o" [] c = "P" -> "p"
      [] c = "Q" -> "q" [] c = "R" -> "r" [] c = "S" -> "s" [] c = "T" -> "t"
      [] c = "U" -> "u" [] c = "V" -> "v" [] c = "W" -> "w" [] c = "X" -> "x"
      [] c = "Y" -> "y" [] c = "Z" -> "z" [] OTHER -> c

\* s.lower()
RECURSIVE lower(_)
lower(s) ==
    IF s = "" THEN "" ELSE LowerChar(SubSeq(s, 1, 1)) \o lower(SubSeq(s, 2, Len(s)))

\* w in s
Contains(w, s) ==
    \E i \in 1..(Len(s) - Len(w) + 1) : SubSeq(s, i, i + Len(w) - 1) = w

\* any(word in s for word in words)
AnyIn(words, s) == \E k \in 1..Len(words) : Contains(words[k], s)

-----------------------------------------------------------------------------
(* Intent router: UnifiedAIAgent._parse_intent *)

\* EditIntent
TEXT_EDIT == "text_edit"
CREATIVE_REWRITE == "creative_rewrite"
LAYOUT_SUGGESTION == "layout_suggestion"
STYLE_SUGGESTION == "style_suggestion"
CTA_OPTIMIZATION == "cta_optimization"
LOCALIZATION == "localization"
AB_GENERATION == "ab_generation"

\* Language
ENGLISH == "en"
HINDI == "hi"
TELUGU == "te"
HINGLISH == "hi-en"

\* The keys of FESTIVAL_PALETTES, in the order of the dict
FestivalNames == <<"diwali", "holi", "independence_day", "christmas", "eid">>

UrgencyWords == <<"urgent", "urgency", "hurry", "fomo", "limited">>
LocalizationWords == <<"translate", "hindi", "telugu", "hinglish", "local", "localize">>
LayoutWords == <<"layout", "position", "move", "arrange", "left", "right", "center">>
StyleWords == <<"color", "palette", "style", "font", "diwali", "holi", "festive">>
CtaWords == <<"cta", "button", "call to action", "shop now", "buy">>
AbWords == <<"a/b", "variant", "test", "experiment">>

\* if "hindi" in command_lower: ... elif "telugu" ...: ... elif "hinglish" ...
TargetLocale(command_lower) ==
    IF Contains("hindi", command_lower) THEN [target_locale |-> HINDI]
    ELSE IF Contains("telugu", command_lower) THEN [target_locale |-> TELUGU]
    ELSE IF Contains("hinglish", command_lower) THEN [target_locale |-> HINGLISH]
    ELSE EmptyDict

\* for festival in self.FESTIVAL_PALETTES.keys():
\*     if festival in command_lower: context["festival"] = festival
RECURSIVE FestivalContext(_, _, _)
FestivalContext(festivals, command_lower, context) ==
    IF festivals = <<>> THEN context
    ELSE FestivalContext(Tail(festivals), command_lower,
            IF Contains(Head(festivals), command_lower)
            THEN [festival |-> Head(festivals)] ELSE context)

\* Variant: the style words are tested before the layout words
RouteLowerStyleFirst(command, command_lower) ==
    IF AnyIn(UrgencyWords, command_lower)
    THEN [intent |-> CREATIVE_REWRITE, context |-> [tone |-> "urgent"]]
    ELSE IF AnyIn(LocalizationWords, command_lower)
    THEN [intent |-> LOCALIZATION, context |-> TargetLocale(command_lower)]
    ELSE IF AnyIn(StyleWords, command_lower)
    THEN [intent |-> STYLE_SUGGESTION,
          context |-> FestivalContext(FestivalNames, command_lower, EmptyDict)]
    ELSE IF AnyIn(LayoutWords, command_lower)
    THEN [intent |-> LAYOUT_SUGGESTION, context |-> EmptyDict]
    ELSE IF AnyIn(CtaWords, command_lower)
    THEN [intent |-> CTA_OPTIMIZATION, context |-> EmptyDict]
    ELSE IF AnyIn(AbWords, command_lower)
    THEN [intent |-> AB_GENERATION, context |-> EmptyDict]
    ELSE [intent |-> CREATIVE_REWRITE, context |-> [instruction |-> command]]

\* The chain of tests on the lower-cased command
RouteLower(command, command_lower) ==
    IF AnyIn(UrgencyWords, command_lower)
    THEN [intent |-> CREATIVE_REWRITE, context |-> [tone |-> "urgent"]]
    ELSE IF AnyIn(LocalizationWords, command_lower)
    THEN [intent |-> LOCALIZATION, context |-> TargetLocale(command_lower)]
    ELSE IF AnyIn(LayoutWords, command_lower)
    THEN [intent |-> LAYOUT_SUGGESTION, context |-> EmptyDict]
    ELSE IF AnyIn(StyleWords, command_lower)
    THEN [intent |-> STYLE_SUGGESTION,
          context |-> FestivalContext(FestivalNames, command_lower, EmptyDict)]
    ELSE IF AnyIn(CtaWords, command_lower)
    THEN [intent |-> CTA_OPTIMIZATION, context |-> EmptyDict]
    ELSE IF AnyIn(AbWords, command_lower)
    THEN [intent |-> AB_GENERATION, context |-> EmptyDict]
    ELSE [intent |-> CREATIVE_REWRITE, context |-> [instruction |-> command]]

\* self._parse_intent(command): [intent, context]
parse_intent(command) == RouteLower(command, lower(command))

-----------------------------------------------------------------------------
(* The AI collaborator: GeminiService.generate, and json.loads of its text *)

\* The text of a response is a sequence of segments, each one a stretch of
\* prose or the text of one JSON value; the empty string is <<>>.
\* A JSON value carries its type: [type |-> "object", value |-> the dict],
\* [type |-> "array", value |-> the list], ...
\* Numbers with a fraction (confidence) are kept in hundredths.
Prose(t) == [kind |-> "prose", value |-> t]
JsonText(v) == [kind |-> "json", value |-> v]
JObject(d) == [type |-> "object", value |-> d]
JArray(l) == [type |-> "array", value |-> l]

\* GeminiService.generate: the text of the API, or, when the call raised or
\* the library is missing, GeminiResponse(success=False, response="")
generate(api) ==
    IF api.raised THEN [success |-> FALSE, response |-> <<>>]
    ELSE [success |-> TRUE, response |-> api.text]

\* json.loads(text): ok = FALSE stands for json.JSONDecodeError
json_loads(text) ==
    IF Len(text) = 1 /\ text[1].kind = "json"
    THEN [ok |-> TRUE, data |-> text[1].value]
    ELSE [ok |-> FALSE, data |-> JArray(<<>>)]

-----------------------------------------------------------------------------
(* Suggestions: UnifiedAIAgent.get_suggestions and its handlers *)

\* A handler ends in an outcome:
\* [raised |-> the exception that left it ("none": it returned),
\*  suggestion |-> the Suggestion returned, uuid |-> the uuid counter after,
\*  tracked |-> whether _track_suggestion was called]
NoSuggestion ==
    [id |-> Null, intent |-> Null, variants |-> <<>>, recommended_index |-> 0,
     reason |-> Null, patch |-> NoPatch, confidence |-> 0, locale |-> Null]

Raised(exception, uuid) ==
    [raised |-> exception, suggestion |-> NoSuggestion, uuid |-> uuid, tracked |-> FALSE]

\* str(v) inside an f-string
Str(v) == IF v = Null THEN "None" ELSE v

\* one tuple of patch_ops, as create_patch turns it into a PatchOp
PatchOpOf(operation, block_id, data, reason) ==
    [operation |-> operation, block_id |-> block_id, data |-> data, reason |-> reason]

\* self.create_patch(operations, description, confidence), the id being Uuid(n)
create_patch(operations, description, confidence, n) ==
    [id |-> Uuid(n), operations |-> operations, description |-> description,
     confidence |-> confidence]

\* patch = self.create_patch(...) if patch_ops else None;
\* return Suggestion(id=str(uuid.uuid4()), ..., patch=patch, ...)
Suggested(intent, variants, recommended_index, reason, patch_ops, description, patch_confidence, confidence, locale, uuid, tracked) ==
    [raised |-> "none",
     suggestion |->
        [id |-> Uuid(uuid + (IF Len(patch_ops) = 0 THEN 1 ELSE 2)),
         intent |-> intent,
         variants |-> variants,
         recommended_index |-> recommended_index,
         reason |-> reason,
         patch |-> IF Len(patch_ops) = 0 THEN NoPatch
                   ELSE create_patch(patch_ops, description, patch_confidence, uuid + 1),
         confidence |-> confidence,
         locale |-> locale],
     uuid |-> uuid + (IF Len(patch_ops) = 0 THEN 1 ELSE 2),
     tracked |-> tracked]

\* self._create_fallback_suggestion(intent, locale)
create_fallback_suggestion(intent, locale, uuid) ==
    [raised |-> "none",
     suggestion |->
        [id |-> Uuid(uuid + 1),
         intent |-> intent,
         variants |-> <<[text |-> "AI suggestion unavailable", fallback |-> TRUE]>>,
         recommended_index |-> 0,
         reason |-> "Fallback suggestion - AI service temporarily unavailable",
         patch |-> NoPatch,
         confidence |-> 50,
         locale |-> locale],
     uuid |-> uuid + 1,
     tracked |-> FALSE]

\* for block in doc.blocks: if <test>: found = block; break
\* the index of the first element that passes the test (hits[i]), 0 when none does
FirstWhere(hits) ==
    IF \E i \in 1..Len(hits) : hits[i]
    THEN CHOOSE i \in 1..Len(hits) : hits[i] /\ \A j \in 1..(i - 1) : ~hits[j]
    ELSE 0

\* The handlers read the blocks of the document as BlockValue records. The
\* prompt they send is not modelled: the text that comes back is an input.

\* Variant: json.JSONDecodeError is not caught
HandledNoCatch(parsed, built, fallback, uuid) ==
    IF ~parsed.ok THEN Raised("JSONDecodeError", uuid)
    ELSE IF parsed.data.type # "object" THEN Raised("AttributeError", uuid)
    ELSE built

\* try: data = json.loads(response.response); ... data.get(...) ...
\* except json.JSONDecodeError: return self._create_fallback_suggestion(...)
\* (data.get raises AttributeError when data is not a dict)
Handled(parsed, built, fallback, uuid) ==
    IF ~parsed.ok THEN fallback
    ELSE IF parsed.data.type # "object" THEN Raised("AttributeError", uuid)
    ELSE built

\* a or b, on strings and None
OrElse(a, b) == IF a = Null \/ a = "" THEN b ELSE a

(* _suggest_creative_rewrite *)

\* block.type == "text" and ("headline" in block.id.lower()
\*                           or block.style.get("size", 0) > 30)
IsHeadline(b) ==
    b.type = "text" /\ (Contains("headline", lower(b.id)) \/ Get(b.style, "size", 0) > 30)

\* headline_block (its index, 0 for None): the first headline, else the first block
HeadlineBlock(blocks) ==
    IF FirstWhere([i \in 1..Len(blocks) |-> IsHeadline(blocks[i])]) # 0 THEN FirstWhere([i \in 1..Len(blocks) |-> IsHeadline(blocks[i])])
    ELSE IF Len(blocks) > 0 THEN 1 ELSE 0

\* current_text = headline_block.text if headline_block else "Your Headline"
CurrentText(blocks, h) == IF h # 0 THEN blocks[h].text ELSE "Your Headline"

\* the variants used when the response has none (the emoji of the first is left out)
DefaultVariants(current_text) ==
    << [text |-> "Flash Sale - " \o Str(current_text) \o "!", tone |-> "urgent", lang |-> "en"],
       [text |-> "Save Big on " \o Str(current_text), tone |-> "value", lang |-> "en"],
       [text |-> "Premium " \o Str(current_text) \o " Collection", tone |-> "premium",
        lang |-> "en"] >>

\* variants = data.get("variants", []); if not variants: variants = [...]
CreativeVariants(data, current_text) ==
    IF Len(Get(data, "variants", <<>>)) = 0 THEN DefaultVariants(current_text)
    ELSE data.variants

\* From recommended_idx = data.get("recommended_index", 0) to the return
CreativeBuilt(blocks, h, current_text, variants, recommended_idx, data, locale, uuid) ==
    Suggested(CREATIVE_REWRITE, variants, recommended_idx,
        Get(data, "reason", "AI-generated variants for better engagement"),
        IF h # 0 /\ recommended_idx < Len(variants)
        THEN <<PatchOpOf(REPLACE_TEXT, blocks[h].id,
                   [new_text |-> Get(variants[recommended_idx + 1], "text", current_text)],
                   Get(data, "reason", "AI recommended variant"))>>
        ELSE <<>>,
        IF h # 0 /\ recommended_idx < Len(variants)
        THEN "Creative rewrite: " \o Get(variants[recommended_idx + 1], "tone", "updated")
                \o " tone"
        ELSE "",
        Get(data, "confidence", 85), Get(data, "confidence", 85), locale, uuid, TRUE)

CreativeData(blocks, h, data, locale, uuid) ==
    CreativeBuilt(blocks, h, CurrentText(blocks, h),
        CreativeVariants(data, CurrentText(blocks, h)),
        Get(data, "recommended_index", 0), data, locale, uuid)

suggest_creative_rewrite(blocks, locale, response, uuid) ==
    Handled(json_loads(response.response),
        CreativeData(blocks, HeadlineBlock(blocks), json_loads(response.response).data.value,
                     locale, uuid),
        create_fallback_suggestion(CREATIVE_REWRITE, locale, uuid), uuid)

(* _suggest_layout *)

\* {b.id: {"x": x, "y": y} for b in doc.blocks}
ElementsAt(blocks, x, y) ==
    [id \in {blocks[i].id : i \in 1..Len(blocks)} |-> [x |-> x, y |-> y]]

DefaultLayouts(blocks) ==
    << [name |-> "text-left-product-right",
        description |-> "Classic layout with text on left",
        elements |-> ElementsAt(blocks, "5", "20")],
       [name |-> "center-aligned",
        description |-> "Centered layout for impact",
        elements |-> ElementsAt(blocks, "50", "50")],
       [name |-> "product-focus",
        description |-> "Product dominant layout",
        elements |-> ElementsAt(blocks, "60", "30")] >>

\* layouts = data.get("layouts", []); if not layouts: layouts = [...]
Layouts(data, blocks) ==
    IF Len(Get(data, "layouts", <<>>)) = 0 THEN DefaultLayouts(blocks) ELSE data.layouts

\* Variant: one operation per element of the recommended layout, whether the
\* document has a block of that id or not
RECURSIVE LayoutOpsOfElements(_, _)
LayoutOpsOfElements(blocks, recommended) ==
    IF DOMAIN Get(recommended, "elements", EmptyDict) = {} THEN <<>>
    ELSE LET id == CHOOSE e \in DOMAIN recommended.elements : TRUE
         IN  <<PatchOpOf(MOVE_BLOCK, id,
                   [x |-> Get(recommended.elements[id], "x", "0"),
                    y |-> Get(recommended.elements[id], "y", "0")],
                   "Move to " \o Get(recommended, "name", "new") \o " layout position")>>
             \o LayoutOpsOfElements(blocks,
                    [recommended EXCEPT !.elements = [e \in DOMAIN @ \ {id} |-> @[e]]])

\* for block in doc.blocks: if block.id in recommended.get("elements", {}): ...
RECURSIVE LayoutOps(_, _)
LayoutOps(blocks, recommended) ==
    IF blocks = <<>> THEN <<>>
    ELSE (IF Head(blocks).id \in DOMAIN Get(recommended, "elements", EmptyDict)
          THEN <<PatchOpOf(MOVE_BLOCK, Head(blocks).id,
                     [x |-> Get(recommended.elements[Head(blocks).id], "x", "0"),
                      y |-> Get(recommended.elements[Head(blocks).id], "y", "0")],
                     "Move to " \o Get(recommended, "name", "new") \o " layout position")>>
          ELSE <<>>)
         \o LayoutOps(Tail(blocks), recommended)

\* recommended = layouts[0]; ...; return Suggestion(...)
LayoutBuilt(blocks, layouts, data, uuid) ==
    Suggested(LAYOUT_SUGGESTION, layouts, 0, Get(data, "reason", "Improved visual hierarchy"),
        LayoutOps(blocks, layouts[1]),
        "Layout change: " \o Get(layouts[1], "name", "optimized"),
        80, 80, ENGLISH, uuid, FALSE)

suggest_layout(blocks, response, uuid) ==
    Handled(json_loads(response.response),
        LayoutBuilt(blocks, Layouts(json_loads(response.response).data.value, blocks),
                    json_loads(response.response).data.value, uuid),
        create_fallback_suggestion(LAYOUT_SUGGESTION, ENGLISH, uuid), uuid)

(* _suggest_style *)

FESTIVAL_PALETTES ==
    [diwali |-> [primary |-> "#FF6B00", secondary |-> "#FFD700",
                 accent |-> "#8B0000", background |-> "#1A0A00"],
     holi |-> [primary |-> "#FF1493", secondary |-> "#00CED1",
               accent |-> "#FFD700", background |-> "#4B0082"],
     independence_day |-> [primary |-> "#FF9933", secondary |-> "#138808",
                           accent |-> "#000080", background |-> "#FFFFFF"],
     christmas |-> [primary |-> "#C41E3A", secondary |-> "#228B22",
                    accent |-> "#FFD700", background |-> "#FFFAFA"],
     eid |-> [primary |-> "#006400", secondary |-> "#FFD700",
              accent |-> "#FFFFFF", background |-> "#1A3A1A"]]

DefaultPalette ==
    [primary |-> "#6366f1", secondary |-> "#1a1a2e", accent |-> "#f59e0b",
     background |-> "#0f0f0f"]

DefaultFonts ==
    [headline |-> [family |-> "Inter", weight |-> "bold", size |-> 48],
     body |-> [family |-> "Inter", weight |-> "normal", size |-> 16]]

\* festival = context.get("festival") or doc.meta.get("occasion")
Festival(context, meta) ==
    OrElse(Get(context, "festival", Null), Get(meta, "occasion", Null))

\* self.FESTIVAL_PALETTES.get(festival.lower() if festival else "", None),
\* EmptyDict standing for None
PresetPalette(festival) ==
    IF OrElse(festival, "") # "" /\ lower(festival) \in DOMAIN FESTIVAL_PALETTES
    THEN FESTIVAL_PALETTES[lower(festival)] ELSE EmptyDict

\* palette = preset_palette or data.get("color_palette", {...})
Palette(preset_palette, data) ==
    IF Truthy(preset_palette) THEN preset_palette
    ELSE Get(data, "color_palette", DefaultPalette)

StyleVariants(palette, fonts, data) ==
    << [name |-> "Recommended Style", palette |-> palette, fonts |-> fonts,
        accessibility_score |-> Get(data, "accessibility_score", 90)],
       [name |-> "High Contrast",
        palette |-> DictUpdate(palette, [primary |-> "#ffffff", background |-> "#000000"]),
        fonts |-> fonts, accessibility_score |-> 100],
       [name |-> "Soft & Elegant",
        palette |-> DictUpdate(palette, [primary |-> "#8b5cf6", background |-> "#1e1b4b"]),
        fonts |-> DictUpdate(fonts,
                    [headline |-> DictUpdate(Get(fonts, "headline", EmptyDict),
                                             [family |-> "Playfair Display"])]),
        accessibility_score |-> 85] >>

\* for block in doc.blocks: if text and headline: ... elif button: ...
RECURSIVE StyleOps(_, _, _)
StyleOps(blocks, palette, fonts) ==
    IF blocks = <<>> THEN <<>>
    ELSE (IF Head(blocks).type = "text" /\ Contains("headline", lower(Head(blocks).id))
          THEN <<PatchOpOf(UPDATE_STYLE, Head(blocks).id,
                     [color |-> Get(palette, "primary", "#ffffff"),
                      font |-> Get(Get(fonts, "headline", EmptyDict), "family", "Inter"),
                      size |-> Get(Get(fonts, "headline", EmptyDict), "size", 48)],
                     "Apply recommended headline style")>>
          ELSE IF Head(blocks).type = "button"
          THEN <<PatchOpOf(UPDATE_STYLE, Head(blocks).id,
                     [backgroundColor |-> Get(palette, "accent", "#f59e0b"),
                      color |-> "#ffffff"],
                     "Apply CTA button style")>>
          ELSE <<>>)
         \o StyleOps(Tail(blocks), palette, fonts)

StyleBuilt(blocks, festival, palette, fonts, data, uuid) ==
    Suggested(STYLE_SUGGESTION, StyleVariants(palette, fonts, data), 0,
        Get(data, "reason",
            "Optimized for " \o OrElse(festival, "brand") \o " with high accessibility"),
        StyleOps(blocks, palette, fonts),
        "Style update with recommended palette", 85, 85, ENGLISH, uuid, FALSE)

StyleData(blocks, festival, data, uuid) ==
    StyleBuilt(blocks, festival, Palette(PresetPalette(festival), data),
               Get(data, "fonts", DefaultFonts), data, uuid)

suggest_style(blocks, meta, context, response, uuid) ==
    Handled(json_loads(response.response),
        StyleData(blocks, Festival(context, meta),
                  json_loads(response.response).data.value, uuid),
        create_fallback_suggestion(STYLE_SUGGESTION, ENGLISH, uuid), uuid)

(* _suggest_cta *)

\* block.type == "button" or "cta" in block.id.lower()
IsCta(b) == b.type = "button" \/ Contains("cta", lower(b.id))

DefaultCtas ==
    << [text |-> "Shop Now", objective |-> "buy", urgency |-> "high"],
       [text |-> "Explore Deals", objective |-> "explore", urgency |-> "medium"],
       [text |-> "Learn More", objective |-> "learn", urgency |-> "low"],
       [text |-> "Subscribe & Save", objective |-> "subscribe", urgency |-> "medium"] >>

\* recommended_idx = 0; for i, cta in enumerate(ctas):
\*     if cta.get("objective") == objective: recommended_idx = i; break
RecommendedCta(ctas, objective) ==
    IF FirstWhere([i \in 1..Len(ctas) |-> Get(ctas[i], "objective", Null) = objective]) = 0 THEN 0
    ELSE FirstWhere([i \in 1..Len(ctas) |-> Get(ctas[i], "objective", Null) = objective]) - 1

CtaBuilt(blocks, c, current_cta, ctas, recommended_idx, objective, data, uuid) ==
    Suggested(CTA_OPTIMIZATION, ctas, recommended_idx,
        Get(data, "reason", "Optimized for " \o objective \o " conversion"),
        IF c # 0 /\ recommended_idx < Len(ctas)
        THEN <<PatchOpOf(REPLACE_TEXT, blocks[c].id,
                   [new_text |-> Get(ctas[recommended_idx + 1], "text", current_cta)],
                   "Optimized for " \o objective \o " objective")>>
        ELSE <<>>,
        "CTA optimized for " \o objective, 90, 90, ENGLISH, uuid, FALSE)

CtaData(blocks, c, objective, data, uuid) ==
    CtaBuilt(blocks, c, IF c # 0 THEN blocks[c].text ELSE "Shop Now",
             Get(data, "ctas", DefaultCtas),
             RecommendedCta(Get(data, "ctas", DefaultCtas), objective),
             objective, data, uuid)

suggest_cta(blocks, context, response, uuid) ==
    Handled(json_loads(response.response),
        CtaData(blocks, FirstWhere([i \in 1..Len(blocks) |-> IsCta(blocks[i])]), Get(context, "objective", "buy"),
                json_loads(response.response).data.value, uuid),
        create_fallback_suggestion(CTA_OPTIMIZATION, ENGLISH, uuid), uuid)

(* _suggest_localization *)

UpperChar(c) ==
    CASE c = "a" -> "A" [] c = "b" -> "B" [] c = "c" -> "C" [] c = "d" -> "D"
      [] c = "e" -> "E" [] c = "f" -> "F" [] c = "g" -> "G" [] c = "h" -> "H"
      [] c = "i" -> "I" [] c = "j" -> "J" [] c = "k" -> "K" [] c = "l" -> "L"
      [] c = "m" -> "M" [] c = "n" -> "N" [] c = "o" -> "O" [] c = "p" -> "P"
      [] c = "q" -> "Q" [] c = "r" -> "R" [] c = "s" -> "S" [] c = "t" -> "T"
      [] c = "u" -> "U" [] c = "v" -> "V" [] c = "w" -> "W" [] c = "x" -> "X"
      [] c = "y" -> "Y" [] c = "z" -> "Z" [] OTHER -> c

IsCased(c) == LowerChar(c) # c \/ UpperChar(c) # c

\* s.title(): the first letter of every run of letters in upper case, the
\* other letters in lower case
RECURSIVE TitleFrom(_, _)
TitleFrom(s, in_word) ==
    IF s = "" THEN ""
    ELSE (IF ~IsCased(SubSeq(s, 1, 1)) THEN SubSeq(s, 1, 1)
          ELSE IF in_word THEN LowerChar(SubSeq(s, 1, 1))
          ELSE UpperChar(SubSeq(s, 1, 1)))
         \o TitleFrom(SubSeq(s, 2, Len(s)), IsCased(SubSeq(s, 1, 1)))

title(s) == TitleFrom(s, FALSE)

\* s.replace(old, new), old not empty
RECURSIVE replace(_, _, _)
replace(s, old, new) ==
    IF Len(s) < Len(old) THEN s
    ELSE IF SubSeq(s, 1, Len(old)) = old
         THEN new \o replace(SubSeq(s, Len(old) + 1, Len(s)), old, new)
         ELSE SubSeq(s, 1, 1) \o replace(SubSeq(s, 2, Len(s)), old, new)

\* The items of HINGLISH_PHRASES, in the order of the dict
HINGLISH_PHRASES ==
    << <<"big sale", "Badi Sale">>, <<"mega offer", "Mega Offer">>,
       <<"hurry up", "Jaldi Karo">>, <<"buy now", "Abhi Kharido">>,
       <<"shop now", "Abhi Shop Karo">>, <<"limited time", "Limited Time Only">>,
       <<"don't miss", "Miss Mat Karo">>, <<"super deal", "Super Deal">>,
       <<"best price", "Best Price Ever">>, <<"free delivery", "Free Delivery">> >>

\* hinglish = original
\* for eng, hin in self.HINGLISH_PHRASES.items():
\*     if eng.lower() in original.lower():
\*         hinglish = original.lower().replace(eng.lower(), hin)
RECURSIVE Hinglish(_, _, _)
Hinglish(phrases, original, hinglish) ==
    IF phrases = <<>> THEN hinglish
    ELSE Hinglish(Tail(phrases), original,
            IF Contains(lower(Head(phrases)[1]), lower(original))
            THEN replace(lower(original), lower(Head(phrases)[1]), Head(phrases)[2])
            ELSE hinglish)

\* texts: the blocks with a text (if block.text), as {"id", "text"} items
RECURSIVE Texts(_)
Texts(blocks) ==
    IF blocks = <<>> THEN <<>>
    ELSE (IF Head(blocks).text # Null /\ Head(blocks).text # ""
          THEN <<[id |-> Head(blocks).id, text |-> Head(blocks).text]>> ELSE <<>>)
         \o Texts(Tail(blocks))

\* The text of the last item of texts with that id
LastText(texts, id) ==
    texts[CHOOSE i \in 1..Len(texts) :
            texts[i].id = id /\ \A j \in (i + 1)..Len(texts) : texts[j].id # id].text

\* The value lang_translations gets for one text item
Translated(lang, translations, text_id, original) ==
    IF lang = ENGLISH THEN original
    ELSE IF lang = HINGLISH
    THEN Get(Get(translations, lang, EmptyDict), text_id,
             title(Hinglish(HINGLISH_PHRASES, original, original)))
    ELSE Get(Get(translations, lang, EmptyDict), text_id, original)

\* One element of variants
LanguageVariant(lang, texts, data) ==
    [language |-> lang,
     translations |->
        [id \in {texts[i].id : i \in 1..Len(texts)} |->
            Translated(lang, Get(data, "translations", EmptyDict), id, LastText(texts, id))],
     transliterations |-> Get(Get(data, "transliterations", EmptyDict), lang, EmptyDict)]

Languages == <<ENGLISH, HINDI, TELUGU, HINGLISH>>

LanguageVariants(texts, data) ==
    [i \in 1..Len(Languages) |-> LanguageVariant(Languages[i], texts, data)]

\* for block in doc.blocks: if block.id in translations: if new_text != block.text: ...
RECURSIVE LocalizationOps(_, _, _)
LocalizationOps(blocks, recommended_variant, target_locale) ==
    IF blocks = <<>> THEN <<>>
    ELSE (IF /\ Head(blocks).id \in DOMAIN recommended_variant.translations
             /\ recommended_variant.translations[Head(blocks).id] # Head(blocks).text
          THEN <<PatchOpOf(REPLACE_TEXT, Head(blocks).id,
                     [new_text |-> recommended_variant.translations[Head(blocks).id]],
                     "Localized to " \o target_locale)>>
          ELSE <<>>)
         \o LocalizationOps(Tail(blocks), recommended_variant, target_locale)

LocalizationBuilt(blocks, variants, recommended_idx, target_locale, data, uuid) ==
    Suggested(LOCALIZATION, variants, recommended_idx,
        Get(data, "cultural_notes", "Localized for " \o target_locale \o " audience"),
        LocalizationOps(blocks, variants[recommended_idx + 1], target_locale),
        "Localization to " \o target_locale,
        Get(data, "confidence", 85), Get(data, "confidence", 85), target_locale, uuid, FALSE)

LocalizationData(blocks, target_locale, data, uuid) ==
    LocalizationBuilt(blocks, LanguageVariants(Texts(blocks), data),
        FirstWhere([i \in 1..Len(Languages) |-> Languages[i] = target_locale]) - 1,
        target_locale, data, uuid)

suggest_localization(blocks, target_locale, response, uuid) ==
    Handled(json_loads(response.response),
        LocalizationData(blocks, target_locale,
                         json_loads(response.response).data.value, uuid),
        create_fallback_suggestion(LOCALIZATION, target_locale, uuid), uuid)

(* _generate_ab_variants *)

DefaultAbVariants ==
    << [name |-> "Variant A (Control)", changes |-> <<>>,
        hypothesis |-> "Baseline performance"],
       [name |-> "Variant B (Urgency)",
        changes |-> <<[type |-> "headline", text |-> "Limited Time Offer!"]>>,
        hypothesis |-> "Urgency increases CTR"] >>

AbData(data, uuid) ==
    Suggested(AB_GENERATION,
        IF Len(Get(data, "variants", <<>>)) < 2 THEN DefaultAbVariants ELSE data.variants,
        0, "A/B variants ready for testing", <<>>, "", 0, 90, ENGLISH, uuid, FALSE)

generate_ab_variants(response, uuid) ==
    Handled(json_loads(response.response),
        AbData(json_loads(response.response).data.value, uuid),
        create_fallback_suggestion(AB_GENERATION, ENGLISH, uuid), uuid)

(* _suggest_text_edit *)

TextEditData(intent, data, locale, uuid) ==
    Suggested(intent, Get(data, "variants", <<>>), 0, Get(data, "reason", "Applied edit"),
        <<>>, "", 0, 80, locale, uuid, FALSE)

\* try: ... except: return self._create_fallback_suggestion(intent, locale)
suggest_text_edit(intent, locale, response, uuid) ==
    IF json_loads(response.response).ok
       /\ json_loads(response.response).data.type = "object"
    THEN TextEditData(intent, json_loads(response.response).data.value, locale, uuid)
    ELSE create_fallback_suggestion(intent, locale, uuid)

(* get_suggestions *)

\* The values of EditIntent
EditIntents ==
    {TEXT_EDIT, CREATIVE_REWRITE, LAYOUT_SUGGESTION, STYLE_SUGGESTION, CTA_OPTIMIZATION,
     LOCALIZATION, AB_GENERATION, "color_change", "font_change", "resize", "move",
     "delete", "add"}

\* self.get_suggestions(doc, intent, locale, context); doc is the document's
\* structure (DocValue), context = None is the empty dict
\* (every handler starts with context = context or {})
get_suggestions(doc, intent, locale, context, response, uuid) ==
    IF intent \notin EditIntents THEN Raised("ValueError", uuid)
    ELSE CASE intent = CREATIVE_REWRITE ->
                suggest_creative_rewrite(doc.blocks, locale, response, uuid)
           [] intent = LAYOUT_SUGGESTION -> suggest_layout(doc.blocks, response, uuid)
           [] intent = STYLE_SUGGESTION ->
                suggest_style(doc.blocks, doc.meta, context, response, uuid)
           [] intent = CTA_OPTIMIZATION -> suggest_cta(doc.blocks, context, response, uuid)
           [] intent = LOCALIZATION ->
                suggest_localization(doc.blocks, locale, response, uuid)
           [] intent = AB_GENERATION -> generate_ab_variants(response, uuid)
           [] OTHER -> suggest_text_edit(intent, locale, response, uuid)

\* self._track_suggestion(intent)
track_suggestion(t, intent) ==
    [t EXCEPT !.total_suggestions = @ + 1,
              !.suggestions_by_type =
                  [k \in (DOMAIN @) \cup {intent} |->
                      IF k = intent THEN Get(@, k, 0) + 1 ELSE @[k]]]

(* accept_suggestion, reject_suggestion, get_telemetry *)

\* self.telemetry["accepted_suggestions"] += 1. The deletion from
\* suggestion_cache that follows never runs: nothing is ever put in the cache.
accept_suggestion(t, suggestion_id) == [t EXCEPT !.accepted_suggestions = @ + 1]

\* self.telemetry["rejected_suggestions"] += 1
reject_suggestion(t, suggestion_id) == [t EXCEPT !.rejected_suggestions = @ + 1]

\* accepted / total, a fraction kept as numerator and denominator
Rate(accepted, total) == [num |-> accepted, den |-> total]

\* return {**self.telemetry, "acceptance_rate": acceptance_rate}
get_telemetry(t) ==
    [total_suggestions |-> t.total_suggestions,
     accepted_suggestions |-> t.accepted_suggestions,
     rejected_suggestions |-> t.rejected_suggestions,
     suggestions_by_type |-> t.suggestions_by_type,
     acceptance_rate |-> IF t.total_suggestions > 0
                         THEN Rate(t.accepted_suggestions, t.total_suggestions)
                         ELSE Rate(0, 1)]

(* process_command *)

\* The dict process_command returns (raised = "none"), or the exception that
\* left it; updated_document is the structure of the document, NoDoc for None;
\* tracked: whether _track_suggestion was called on the way
Answer(out, auto_applied, updated_document) ==
    [raised |-> out.raised, suggestion |-> out.suggestion,
     auto_applied |-> auto_applied, updated_document |-> updated_document,
     tracked |-> out.tracked]

\* if auto_apply and suggestion.patch: doc = self.apply_patch(doc, suggestion.patch)
\* return {..., "auto_applied": auto_apply and suggestion.patch is not None,
\*         "updated_document": doc.to_dict() if auto_apply else None}
AutoApply(store, a, out, auto_apply, applied) ==
    IF out.raised # "none"
    THEN [store |-> store, answer |-> Answer(out, FALSE, NoDoc)]
    ELSE IF auto_apply /\ out.suggestion.patch.id # Null
    THEN [store |-> applied,
          answer |-> Answer(out, TRUE, DocValue(applied.docs[a], applied.mem.dicts))]
    ELSE [store |-> [store EXCEPT !.mem.uuid = out.uuid],
          answer |-> Answer(out, FALSE,
                        IF auto_apply THEN DocValue(store.docs[a], store.mem.dicts)
                        ELSE NoDoc)]

\* Variant: the patch is applied twice
SuggestTwice(store, a, out, auto_apply) ==
    AutoApply(store, a, out, auto_apply,
        IF out.raised = "none" /\ auto_apply /\ out.suggestion.patch.id # Null
        THEN apply_patch(apply_patch([store EXCEPT !.mem.uuid = out.uuid], a,
                                     out.suggestion.patch),
                         a, out.suggestion.patch)
        ELSE store)

\* suggestion = await self.get_suggestions(doc, intent, locale, context); ...
Suggest(store, a, out, auto_apply) ==
    AutoApply(store, a, out, auto_apply,
        IF out.raised = "none" /\ auto_apply /\ out.suggestion.patch.id # Null
        THEN apply_patch([store EXCEPT !.mem.uuid = out.uuid], a, out.suggestion.patch)
        ELSE store)

\* self.process_command(command, doc, locale, auto_apply), on the object a:
\* [store |-> the agent's state after, answer |-> what the caller gets]
process_command(store, a, route, locale, auto_apply, response) ==
    Suggest(store, a,
        get_suggestions(DocValue(store.docs[a], store.mem.dicts), route.intent, locale,
                        route.context, response, store.mem.uuid),
        auto_apply)

-----------------------------------------------------------------------------
(* Inputs *)

DocIds == {"d1", "d2"}

\* Document bodies a caller sends: one without blocks, and one with two
\* blocks, each carrying a position, the first of them no size.
RawDocs ==
    { [id |-> "d1", blocks |-> <<>>],
      [id |-> "d2", layout |-> "left",
       blocks |-> << [id |-> "b1", type |-> "text", text |-> "Sale",
                      style |-> [color |-> "white"], position |-> [x |-> "0"]],
                     [id |-> "b2", type |-> "button", text |-> "Buy",
                      position |-> [x |-> "5"], size |-> [width |-> "100"]] >>] }

\* Patch operations a caller sends
RawOps ==
    { [operation |-> REPLACE_TEXT, block_id |-> "b1", data |-> [new_text |-> "Hurry"]],
      [operation |-> UPDATE_STYLE, block_id |-> "b1", data |-> [color |-> "red"]],
      [operation |-> MOVE_BLOCK, block_id |-> "b1", data |-> [x |-> "10"]],
      [operation |-> ADD_BLOCK, block_id |-> "",
       data |-> [id |-> "b1", type |-> "text", text |-> "Hello",
                 style |-> [color |-> "blue"]]],
      [operation |-> ADD_BLOCK, block_id |-> "", data |-> [type |-> "shape"]],
      [operation |-> DELETE_BLOCK, block_id |-> "b1"],
      [operation |-> CHANGE_LAYOUT, block_id |-> "", data |-> [layout |-> "right"]] }

\* Patch bodies of at most n operations
RawPatches(n) ==
    { [id |-> "p", operations |-> ops, description |-> "edit"] :
        ops \in UNION { [1..k -> RawOps] : k \in 0..n } }

\* The inputs of the retention specification: one document, patches without operations
CapDoc == [id |-> "d1", blocks |-> <<>>, canvas |-> [width |-> 800, height |-> 600]]
CapPatch == [id |-> "p", operations |-> <<>>, description |-> "edit"]

\* Documents sent with a suggestion request: those of RawDocs, and one with an
\* occasion and a headline block (a style size, when present, is a number)
AiDocs ==
    RawDocs \cup
    { [id |-> "d3", meta |-> [occasion |-> "Diwali"],
       blocks |-> << [id |-> "Headline", type |-> "text", text |-> "big sale",
                      style |-> [size |-> 48], position |-> [x |-> "0"]],
                     [id |-> "b1", type |-> "text", text |-> "Only today"],
                     [id |-> "cta-1", type |-> "button", text |-> "Buy"] >>] }

\* Intents a caller asks for: the values with a handler of their own, one
\* value served by _suggest_text_edit, and one string that is no EditIntent
AskIntents ==
    {TEXT_EDIT, CREATIVE_REWRITE, LAYOUT_SUGGESTION, STYLE_SUGGESTION, CTA_OPTIMIZATION,
     LOCALIZATION, AB_GENERATION, "resize", "summarize"}

AskLocales == {ENGLISH, HINDI, HINGLISH}

AskContexts == {EmptyDict, [objective |-> "learn", festival |-> "Holi"]}

\* The texts the API returns
ApiTexts ==
    << <<Prose("Sorry, I cannot help with that.")>>,
       <<Prose("Here you go: "),
         JsonText(JObject([variants |-> <<[text |-> "Mega Deal", tone |-> "urgent"]>>])),
         Prose(" Hope it helps!")>>,
       <<JsonText(JArray(<<>>))>>,
       <<JsonText(JObject(EmptyDict))>>,
       <<JsonText(JObject([variants |-> <<[text |-> "Mega Deal", tone |-> "urgent"],
                                          [text |-> "Best Price", tone |-> "value"]>>,
                          recommended_index |-> 1, reason |-> "Stronger hook",
                          confidence |-> 95]))>>,
       <<JsonText(JObject([variants |-> <<[text |-> "Mega Deal", tone |-> "urgent"]>>,
                          recommended_index |-> 3]))>>,
       <<JsonText(JObject([variants |-> <<>>, ctas |-> <<>>]))>>,
       <<JsonText(JObject([layouts |-> <<[name |-> "hero",
                                          elements |-> [b1 |-> [x |-> "10", y |-> "20"]]]>>]))>>,
       <<JsonText(JObject([ctas |-> <<[text |-> "Get it", objective |-> "buy"],
                                      [text |-> "Read on", objective |-> "learn"]>>]))>>,
       <<JsonText(JObject([translations |-> [hi |-> [b1 |-> "Bikri"]],
                          confidence |-> 90]))>>,
       <<JsonText(JObject([color_palette |-> [primary |-> "#111111"],
                          reason |-> "Calm look"]))>> >>

\* What the API call of GeminiService.generate does: it raises (0), or it
\* returns the k-th text
Api(k) ==
    IF k = 0 THEN [raised |-> TRUE, text |-> <<>>]
    ELSE [raised |-> FALSE, text |-> ApiTexts[k]]

ApiOutcomes == 0..Len(ApiTexts)

\* Commands sent to process_command
AskCommands ==
    {"Make it URGENT", "Translate to Hindi", "move logo left", "Colors for Diwali",
     "better button", "a/b test", "shorter please", "Christmas look"}

\* Words of the commands sent to _parse_intent
Words ==
    {"urgent", "Limited", "translate", "Hindi", "localize", "layout", "left",
     "color", "Diwali", "holi", "christmas", "eid", "independence_day",
     "button", "buy", "variant", "shorter", "please"}

\* The commands of at most n words
RECURSIVE CommandsOf(_)
CommandsOf(n) ==
    IF n = 0 THEN {}
    ELSE Words \cup CommandsOf(n - 1)
         \cup {c \o " " \o w : c \in CommandsOf(n - 1), w \in Words}

-----------------------------------------------------------------------------
(* The record of the most recent call, and the trail of each document id *)

\* trail[id], the calls that reached the version store of document id so far:
\* call: the latest of them (apply_patch, save_version, undo, redo; none at
\* first), obj: the object it was given, pre: the structure of that object
\* before it, dropped: the versions it cut off beyond the cursor, ret: the
\* object it returned; phase: "applied" while every call so far was an
\* apply_patch on the same object, "undone" after one undo that followed them
\* and returned a document, "other" after anything else; result: the structure
\* of that object when the undo was called
NoTrail == [call |-> "none", obj |-> 0, pre |-> NoDoc, dropped |-> 0, ret |-> 0,
            phase |-> "none", result |-> NoDoc]

\* last: op: the method; id: the document id; doc: the object passed (0: none);
\* patch: the patch passed; pre / post: the structure of the object passed before
\* and after the call (for undo / redo, post is the structure of the returned
\* object); ret: the object returned (0: None); hist: the list get_history
\* returned; before: trail[id] before the call
Call(op, id, doc, patch, pre, post, ret, hist) ==
    [op |-> op, id |-> id, doc |-> doc, patch |-> patch, pre |-> pre, post |-> post,
     ret |-> ret, hist |-> hist,
     before |-> IF id \in DOMAIN trail THEN trail[id] ELSE NoTrail]

SetStore(store) ==
    /\ document_versions' = store.document_versions
    /\ current_version_index' = store.current_version_index
    /\ docs' = store.docs
    /\ dicts' = store.mem.dicts
    /\ uuid_count' = store.mem.uuid

\* Versions of doc_id beyond the cursor
Beyond(doc_id) ==
    IF doc_id \in DOMAIN document_versions
    THEN Len(document_versions[doc_id]) - (current_version_index[doc_id] + 1)
    ELSE 0

\* reply: op: the method called; a: the object passed; command, intent,
\* context, locale, auto_apply: the arguments (for process_command, intent and
\* context are what _parse_intent made of the command); response: the text the
\* AI collaborator returned; pre: the structure of the document before the
\* call; answer: what the call returned or raised
NoAnswer ==
    [raised |-> "none", suggestion |-> NoSuggestion, auto_applied |-> FALSE,
     updated_document |-> NoDoc, tracked |-> FALSE]

NoReply ==
    [op |-> "none", a |-> 0, command |-> "", intent |-> Null, context |-> EmptyDict,
     locale |-> Null, auto_apply |-> FALSE, response |-> <<>>, pre |-> NoDoc,
     answer |-> NoAnswer]

\* The Suggestion is the one _create_fallback_suggestion builds
IsFallback(suggestion) ==
    /\ Len(suggestion.variants) = 1
    /\ "fallback" \in DOMAIN suggestion.variants[1]

\* The request threads that call save_version at the same time
Threads == {1, 2}

NoVersion == [version_id |-> Null, document |-> 0, patch_applied |-> NoPatch,
              description |-> ""]

\* A call that has not started
NoFrame == [pc |-> "idle", doc |-> 0, current_idx |-> -1, version |-> NoVersion]

\* saving: frame: the frame of each thread; overlapped: a thread ran a
\* statement while the call of the other was under way; appended: the
\* version_id of the version appended last
NoSaving == [frame |-> [t \in Threads |-> NoFrame], overlapped |-> FALSE, appended |-> Null]

-----------------------------------------------------------------------------
(* Actions: one per call of the caller *)

Init ==
    /\ dicts = <<>>
    /\ uuid_count = 0
    /\ docs = <<>>
    /\ document_versions = EmptyDict
    /\ current_version_index = EmptyDict
    /\ live = {}
    /\ taken = 0
    /\ last = [op |-> "none", id |-> Null, doc |-> 0, patch |-> NoPatch,
               pre |-> NoDoc, post |-> NoDoc, ret |-> 0, hist |-> <<>>,
               before |-> NoTrail]
    /\ trail = [id \in DocIds |-> NoTrail]
    /\ calls = 0
    /\ nops = 0
    /\ undos = 0
    /\ telemetry = [total_suggestions |-> 0, accepted_suggestions |-> 0,
                    rejected_suggestions |-> 0, suggestions_by_type |-> EmptyDict]
    /\ reply = NoReply
    /\ issued = [total |-> 0, by_intent |-> [i \in EditIntents |-> 0]]
    /\ asks = 0
    /\ saving = NoSaving

\* doc = DocumentModel.from_dict(doc_data): the caller holds the new object
Built(built) ==
    /\ docs' = Append(docs, built.doc)
    /\ dicts' = built.mem.dicts
    /\ uuid_count' = built.mem.uuid
    /\ live' = live \cup {Len(docs) + 1}
    /\ last' = Call("from_dict", built.doc.id, Len(docs) + 1, NoPatch, NoDoc,
                    DocValue(built.doc, built.mem.dicts), Len(docs) + 1, <<>>)
    /\ calls' = calls + 1
    /\ UNCHANGED <<document_versions, current_version_index, taken, trail, nops, undos>>
    /\ UNCHANGED aivars
    /\ UNCHANGED saving

FromLoaded(loaded) == Built(from_dict(loaded.value, loaded.mem))

FromDict(raw) == FromLoaded(LoadDocument(raw, Store.mem))

\* agent.save_version(doc) on a held object
Saved(a, after) ==
    /\ SetStore(after)
    /\ last' = Call("save_version", docs[a].id, a, NoPatch, DocValue(docs[a], dicts),
                    DocValue(after.docs[a], after.mem.dicts), 0, <<>>)
    /\ trail' = [trail EXCEPT ![docs[a].id] =
                    [call |-> "save_version", obj |-> a, pre |-> DocValue(docs[a], dicts),
                     dropped |-> Beyond(docs[a].id), ret |-> 0,
                     phase |-> "other", result |-> NoDoc]]
    /\ calls' = calls + 1
    /\ UNCHANGED <<live, taken, nops, undos>>
    /\ UNCHANGED aivars
    /\ UNCHANGED saving

SaveVersion(a) == Saved(a, save_version(Store, docs[a], NoPatch, ""))

\* agent.apply_patch(doc, patch) on a held object, with the patch of a request body
Applied(a, patch, after) ==
    /\ SetStore(after)
    /\ last' = Call("apply_patch", docs[a].id, a, patch, DocValue(docs[a], dicts),
                    DocValue(after.docs[a], after.mem.dicts), a, <<>>)
    /\ trail' = [trail EXCEPT ![docs[a].id] =
                    [call |-> "apply_patch", obj |-> a, pre |-> DocValue(docs[a], dicts),
                     dropped |-> Beyond(docs[a].id), ret |-> a,
                     phase |-> IF @.phase = "none" \/ (@.phase = "applied" /\ @.obj = a)
                               THEN "applied" ELSE "other",
                     result |-> NoDoc]]
    /\ calls' = calls + 1
    /\ nops' = nops + Len(patch.operations)
    /\ UNCHANGED <<live, taken, undos>>
    /\ UNCHANGED aivars
    /\ UNCHANGED saving

ApplyLoaded(a, loaded) ==
    Applied(a, loaded.value, apply_patch([Store EXCEPT !.mem = loaded.mem], a, loaded.value))

ApplyPatch(a, raw) == ApplyLoaded(a, LoadPatch(raw, Store.mem))

\* The caller takes the object undo or redo returned
Returned(op, doc_id, r) ==
    /\ SetStore(r.store)
    /\ taken' = IF r.ret = 0 THEN taken ELSE r.ret
    /\ last' = Call(op, doc_id, 0, NoPatch, NoDoc,
                    IF r.ret = 0 THEN NoDoc ELSE DocValue(docs[r.ret], dicts),
                    r.ret, <<>>)
    /\ trail' = [trail EXCEPT ![doc_id] =
                    [call |-> op, obj |-> 0, pre |-> NoDoc, dropped |-> 0, ret |-> r.ret,
                     phase |-> IF op = "undo" /\ @.phase = "applied" /\ r.ret # 0
                               THEN "undone" ELSE "other",
                     result |-> IF op = "undo" /\ @.phase = "applied" /\ r.ret # 0
                                THEN DocValue(docs[@.obj], dicts) ELSE NoDoc]]
    /\ UNCHANGED <<live, calls, nops>>
    /\ UNCHANGED aivars
    /\ UNCHANGED saving

\* agent.undo(doc_id)
Undo(doc_id) ==
    /\ Returned("undo", doc_id, undo(Store, doc_id))
    /\ undos' = undos + 1

\* agent.redo(doc_id)
Redo(doc_id) ==
    /\ Returned("redo", doc_id, redo(Store, doc_id))
    /\ UNCHANGED undos

\* agent.get_history(doc_id)
GetHistory(doc_id) ==
    /\ last' = Call("get_history", doc_id, 0, NoPatch, NoDoc, NoDoc, 0,
                    get_history(Store, doc_id))
    /\ UNCHANGED <<dicts, uuid_count, docs, document_versions, current_version_index,
                   live, taken, trail, calls, nops, undos>>
    /\ UNCHANGED aivars
    /\ UNCHANGED saving

\* A get_suggestions or process_command call that ended in r =
\* [store |-> the agent's state after, answer |-> what it returned or raised]
Asked(op, a, command, route, locale, auto_apply, response, r) ==
    /\ SetStore(r.store)
    /\ telemetry' = IF r.answer.tracked
                    THEN track_suggestion(telemetry, r.answer.suggestion.intent)
                    ELSE telemetry
    /\ reply' = [op |-> op, a |-> a, command |-> command, intent |-> route.intent,
                 context |-> route.context, locale |-> locale, auto_apply |-> auto_apply,
                 response |-> response.response, pre |-> DocValue(docs[a], dicts),
                 answer |-> r.answer]
    /\ issued' = IF r.answer.raised = "none" /\ ~IsFallback(r.answer.suggestion)
                 THEN [total |-> issued.total + 1,
                       by_intent |-> [issued.by_intent EXCEPT
                                         ![r.answer.suggestion.intent] = @ + 1]]
                 ELSE issued
    /\ asks' = asks + 1
    /\ UNCHANGED <<live, taken, last, trail, calls, nops, undos, saving>>

\* The state and the answer after get_suggestions ended in out
Got(store, out) ==
    [store |-> [store EXCEPT !.mem.uuid = out.uuid], answer |-> Answer(out, FALSE, NoDoc)]

\* agent.get_suggestions(doc, intent, locale, context) on a held object
GetSuggestions(a, intent, locale, context, api) ==
    Asked("get_suggestions", a, "", [intent |-> intent, context |-> context], locale,
          FALSE, generate(api),
          Got(Store, get_suggestions(DocValue(docs[a], dicts), intent, locale, context,
                                     generate(api), uuid_count)))

\* agent.process_command(command, doc, locale, auto_apply) on a held object
ProcessCommand(a, command, locale, auto_apply, api) ==
    Asked("process_command", a, command, parse_intent(command), locale, auto_apply,
          generate(api),
          process_command(Store, a, parse_intent(command), locale, auto_apply,
                          generate(api)))

\* agent._parse_intent(command)
ParseIntent(command) ==
    /\ reply' = [NoReply EXCEPT !.op = "_parse_intent", !.command = command,
                                !.intent = parse_intent(command).intent,
                                !.context = parse_intent(command).context]
    /\ UNCHANGED <<dicts, uuid_count, docs, document_versions, current_version_index,
                   live, taken, last, trail, calls, nops, undos, telemetry, issued, asks,
                   saving>>

\* The feedback route and the telemetry route leave everything but the
\* counters as it is
Feedback(op, suggestion_id, t, answer) ==
    /\ telemetry' = t
    /\ reply' = [NoReply EXCEPT !.op = op, !.command = suggestion_id, !.answer = answer]
    /\ UNCHANGED <<dicts, uuid_count, docs, document_versions, current_version_index,
                   live, taken, last, trail, calls, nops, undos, issued, asks, saving>>

\* agent.accept_suggestion(suggestion_id)
AcceptSuggestion(suggestion_id) ==
    Feedback("accept_suggestion", suggestion_id,
             accept_suggestion(telemetry, suggestion_id), NoAnswer)

\* agent.reject_suggestion(suggestion_id)
RejectSuggestion(suggestion_id) ==
    Feedback("reject_suggestion", suggestion_id,
             reject_suggestion(telemetry, suggestion_id), NoAnswer)

\* agent.get_telemetry()
GetTelemetry == Feedback("get_telemetry", "", telemetry, get_telemetry(telemetry))

-----------------------------------------------------------------------------
(* save_version calls of two request threads on the one agent *)

\* The call of thread t is under way
Underway(t) == saving.frame[t].pc \notin {"idle", "done"}

\* Thread t runs the statement at pc of its call, which leaves the agent in
\* store and the frame of t as frame
Stepped(t, pc, store, frame, appended) ==
    /\ saving.frame[t].pc = pc
    /\ SetStore(store)
    /\ saving' = [frame |-> [saving.frame EXCEPT ![t] = frame],
                  overlapped |-> saving.overlapped \/ \E u \in Threads \ {t} : Underway(u),
                  appended |-> appended]
    /\ UNCHANGED <<live, taken, last, trail, calls, nops, undos>>
    /\ UNCHANGED aivars

\* Thread t calls save_version(doc) with the object a and runs
\* if doc_id not in self.document_versions: ...
SaveBegin(t, a) ==
    Stepped(t, "idle", EnsureHistory(Store, docs[a].id),
            [saving.frame[t] EXCEPT !.pc = "read", !.doc = a], saving.appended)

\* current_idx = self.current_version_index[doc_id]
SaveRead(t) ==
    Stepped(t, "read", Store,
            [saving.frame[t] EXCEPT !.pc = "truncate",
                !.current_idx = ReadCursor(Store, docs[saving.frame[t].doc].id)],
            saving.appended)

\* self.document_versions[doc_id] = self.document_versions[doc_id][:current_idx + 1]
SaveTruncate(t) ==
    Stepped(t, "truncate",
            TruncateAt(Store, docs[saving.frame[t].doc].id, saving.frame[t].current_idx),
            [saving.frame[t] EXCEPT !.pc = "version"], saving.appended)

\* version = DocumentVersion(...)
SaveVersionObject(t) ==
    Stepped(t, "version", CopyDocument(DrawUuid(Store), docs[saving.frame[t].doc]),
            [saving.frame[t] EXCEPT !.pc = "append",
                !.version = NewVersion(CopyDocument(DrawUuid(Store),
                                                    docs[saving.frame[t].doc]))],
            saving.appended)

\* self.document_versions[doc_id].append(version)
SaveAppend(t) ==
    Stepped(t, "append",
            AppendOnly(Store, docs[saving.frame[t].doc].id, saving.frame[t].version),
            [saving.frame[t] EXCEPT !.pc = "cursor"],
            saving.frame[t].version.version_id)

\* self.current_version_index[doc_id] = len(self.document_versions[doc_id]) - 1
SaveCursor(t) ==
    Stepped(t, "cursor", SetCursor(Store, docs[saving.frame[t].doc].id),
            [saving.frame[t] EXCEPT !.pc = "limit"], saving.appended)

\* if len(self.document_versions[doc_id]) > 50: ...; return version.version_id
SaveLimit(t) ==
    Stepped(t, "limit", LimitHistory(Store, docs[saving.frame[t].doc].id),
            [saving.frame[t] EXCEPT !.pc = "done"], saving.appended)

-----------------------------------------------------------------------------
(* Specifications *)

\* Any caller: documents and patches of RawDocs and RawOps
Next ==
    \/ \E raw \in RawDocs : calls < MaxCalls /\ FromDict(raw)
    \/ \E a \in Held : calls < MaxCalls /\ SaveVersion(a)
    \/ \E a \in Held : \E raw \in RawPatches(MaxOps - nops) :
          calls < MaxCalls /\ ApplyPatch(a, raw)
    \/ \E doc_id \in DocIds : undos < MaxUndos /\ Undo(doc_id)
    \/ \E doc_id \in DocIds : Redo(doc_id)
    \/ \E doc_id \in DocIds : GetHistory(doc_id)

Spec == Init /\ [][Next]_vars

\* A caller that builds one document and edits it long enough to fill its
\* history; it saves directly before its first edit or right after an undo
NextCap ==
    \/ docs = <<>> /\ FromDict(CapDoc)
    \/ \E a \in Held :
          /\ CapDoc.id \notin DOMAIN document_versions \/ last.op = "undo"
          /\ SaveVersion(a)
    \/ \E a \in Held : calls < CapCalls /\ ApplyPatch(a, CapPatch)
    \/ undos < CapUndos /\ Undo(CapDoc.id)
    \/ Redo(CapDoc.id)
    \/ GetHistory(CapDoc.id)

SpecCap == Init /\ [][NextCap]_vars

\* A caller that sends one document and asks for suggestions on it
NextAI ==
    \/ \E raw \in AiDocs : docs = <<>> /\ FromDict(raw)
    \/ \E a \in Held : \E intent \in AskIntents : \E locale \in AskLocales :
          \E context \in AskContexts : \E api \in ApiOutcomes :
             asks < MaxAsks /\ GetSuggestions(a, intent, locale, context, Api(api))
    \/ \E a \in Held : \E command \in AskCommands : \E locale \in AskLocales :
          \E auto_apply \in BOOLEAN : \E api \in ApiOutcomes :
             asks < MaxAsks /\ ProcessCommand(a, command, locale, auto_apply, Api(api))

SpecAI == Init /\ [][NextAI]_vars

\* The intent router applied to the commands of at most MaxWords words
NextRouter == \E command \in CommandsOf(MaxWords) : ParseIntent(command)

SpecRouter == Init /\ [][NextRouter]_vars

\* Two request threads that each save the document once, after a caller
\* built it, saved it up to RaceCalls - 1 times and possibly undid one save
RaceStarted == \E t \in Threads : saving.frame[t].pc # "idle"

NextRace ==
    \/ docs = <<>> /\ FromDict(CapDoc)
    \/ \E a \in Held : ~RaceStarted /\ calls < RaceCalls /\ SaveVersion(a)
    \/ ~RaceStarted /\ undos < MaxUndos /\ Undo(CapDoc.id)
    \/ \E t \in Threads : \E a \in Held : SaveBegin(t, a)
    \/ \E t \in Threads : SaveRead(t)
    \/ \E t \in Threads : SaveTruncate(t)
    \/ \E t \in Threads : SaveVersionObject(t)
    \/ \E t \in Threads : SaveAppend(t)
    \/ \E t \in Threads : SaveCursor(t)
    \/ \E t \in Threads : SaveLimit(t)

SpecRace == Init /\ [][NextRace]_vars

\* A caller that builds one document and applies up to ReplayCalls - 1 patches
\* of at most ReplayOps operations to it
ReplayDocs ==
    RawDocs \cup
    { [id |-> "d2",
       blocks |-> << [id |-> "b1", type |-> "text", text |-> "Sale",
                      position |-> [x |-> "0"]],
                     [id |-> "b1", type |-> "text", text |-> "Buy",
                      style |-> [color |-> "white"]] >>] }

NextReplay ==
    \/ \E raw \in ReplayDocs : docs = <<>> /\ FromDict(raw)
    \/ \E a \in Held : \E raw \in RawPatches(ReplayOps) :
          calls < ReplayCalls /\ ApplyPatch(a, raw)

SpecReplay == Init /\ [][NextReplay]_vars

\* A caller that works on the two documents of RawDocs in turn: IsoCalls
\* from_dict, save_version and apply_patch calls, patches of at most IsoOps
\* operations
NextIso ==
    \/ \E raw \in RawDocs : calls < IsoCalls /\ FromDict(raw)
    \/ \E a \in Held : calls < IsoCalls /\ SaveVersion(a)
    \/ \E a \in Held : \E raw \in RawPatches(IsoOps) :
          calls < IsoCalls /\ ApplyPatch(a, raw)
    \/ \E doc_id \in DocIds : undos < MaxUndos /\ Undo(doc_id)
    \/ \E doc_id \in DocIds : Redo(doc_id)

SpecIso == Init /\ [][NextIso]_vars

\* A caller that sends one document, asks for suggestions on it and reports
\* up to MaxFeedback times whether a suggestion was accepted
FeedbackIds == {Uuid(1), Uuid(2), "unknown"}

Reported == telemetry.accepted_suggestions + telemetry.rejected_suggestions

NextFeedback ==
    \/ \E raw \in AiDocs : docs = <<>> /\ FromDict(raw)
    \/ \E a \in Held : \E intent \in AskIntents : \E api \in ApiOutcomes :
          asks < MaxAsks /\ GetSuggestions(a, intent, ENGLISH, EmptyDict, Api(api))
    \/ \E suggestion_id \in FeedbackIds :
          Reported < MaxFeedback /\ AcceptSuggestion(suggestion_id)
    \/ \E suggestion_id \in FeedbackIds :
          Reported < MaxFeedback /\ RejectSuggestion(suggestion_id)
    \/ GetTelemetry

SpecFeedback == Init /\ [][NextFeedback]_vars

-----------------------------------------------------------------------------
(* Properties *)

\* The structure of the document stored in version v
Snapshot(v, docheap, dictheap) == DocValue(docheap[v.document], dictheap)

VersionIds(versions) == {versions[i].version_id : i \in 1..Len(versions)}

Min(a, b) == IF a <= b THEN a ELSE b

\* The oldest version of doc_id was evicted: the list no longer starts with
\* the first version saved
Evicted(doc_id) ==
    /\ doc_id \in DOMAIN document_versions
    /\ Len(document_versions[doc_id]) > 0
    /\ document_versions[doc_id][1].version_id # Uuid(1)

\* C1: undo called right after apply_patch(D, P) returns a document
\* structurally equal to D as it stood before P was applied.
C1_UndoRoundTrip ==
    (last.op = "undo" /\ last.before.call = "apply_patch")
        => (last.ret # 0 /\ last.post = last.before.pre)

\* C2: after one or more apply_patch calls on a document and an undo that
\* returned a document, redo returns a document structurally equal to the
\* document as it stood immediately before the undo.
C2_RedoAfterUndo ==
    (last.op = "redo" /\ last.before.phase = "undone")
        => (last.ret # 0 /\ last.post = last.before.result)

\* C3: the document of a stored version never changes: not under any later
\* call, and not under the operations apply_patch performs right after it
\* stored the version.
C3_SnapshotsImmutable ==
    [][ /\ \A id \in DOMAIN document_versions :
            \A i \in 1..Len(document_versions[id]) :
                \A j \in 1..Len(document_versions'[id]) :
                    document_versions[id][i].version_id
                        = document_versions'[id][j].version_id
                    => Snapshot(document_versions[id][i], docs, dicts)
                         = Snapshot(document_versions'[id][j], docs', dicts')
        /\ last'.op = "apply_patch"
            => Snapshot(document_versions'[last'.id][current_version_index'[last'.id] + 1],
                        docs', dicts') = last'.pre
      ]_vars

\* C4: a save (direct or through apply_patch) discards every version that was
\* beyond the cursor, and a redo issued right after a save returns None.
C4_BranchTruncation ==
    [][ /\ \A id \in DOMAIN document_versions :
            (last'.op \in {"save_version", "apply_patch"} /\ last'.id = id)
            => /\ Len(document_versions'[id])
                    = Min(current_version_index[id] + 2, HistoryLimit)
               /\ \A i \in (current_version_index[id] + 2)..Len(document_versions[id]) :
                     document_versions[id][i].version_id
                        \notin VersionIds(document_versions'[id])
        /\ (last'.op = "redo" /\ last'.before.call \in {"save_version", "apply_patch"})
            => last'.ret = 0
      ]_vars

\* A redo returned None right after a save that cut off undone versions
C4_Witness ==
    /\ last.op = "redo"
    /\ last.ret = 0
    /\ last.before.call = "save_version"
    /\ last.before.dropped > 0

\* C5: the version list of every document id holds at most 50 versions.
C5_RetentionCap ==
    \A id \in DOMAIN document_versions : Len(document_versions[id]) <= HistoryLimit

\* The list is full and its oldest version has been evicted
C5_Witness ==
    \E id \in DOMAIN document_versions :
        Evicted(id) /\ Len(document_versions[id]) = HistoryLimit

\* C6: for every document id with a non-empty version list,
\* 0 <= current_version_index < length of the list.
C6_CursorInRange ==
    \A id \in DOMAIN document_versions :
        Len(document_versions[id]) > 0
        => /\ 0 <= current_version_index[id]
           /\ current_version_index[id] < Len(document_versions[id])

\* A save evicted the oldest version and left the cursor on the last index
C6_Witness ==
    \E id \in DOMAIN document_versions :
        /\ Evicted(id)
        /\ last.op = "apply_patch"
        /\ current_version_index[id] = HistoryLimit - 1

\* The blocks of a document structure that an operation of the given kind targets
Targeted(blocks, ops, kind) ==
    {FirstIndex(blocks, ops[k].block_id) : k \in {n \in 1..Len(ops) : ops[n].operation = kind}}

\* A patch made only of update_style and move_block operations on existing blocks
StyleAndMoveOnly(blocks, ops) ==
    \A k \in 1..Len(ops) :
        /\ ops[k].operation \in {UPDATE_STYLE, MOVE_BLOCK}
        /\ FirstIndex(blocks, ops[k].block_id) # 0

\* C7: a patch made only of update_style and move_block operations on existing
\* blocks changes only the style of the blocks update_style targets and the
\* position of the blocks move_block targets.
C7_StyleMoveFrame ==
    (last.op = "apply_patch" /\ StyleAndMoveOnly(last.pre.blocks, last.patch.operations))
    => /\ Len(last.post.blocks) = Len(last.pre.blocks)
       /\ \A i \in 1..Len(last.pre.blocks) :
             /\ last.post.blocks[i].id = last.pre.blocks[i].id
             /\ last.post.blocks[i].type = last.pre.blocks[i].type
             /\ last.post.blocks[i].text = last.pre.blocks[i].text
             /\ last.post.blocks[i].size = last.pre.blocks[i].size
             /\ i \notin Targeted(last.pre.blocks, last.patch.operations, UPDATE_STYLE)
                   => last.post.blocks[i].style = last.pre.blocks[i].style
             /\ i \notin Targeted(last.pre.blocks, last.patch.operations, MOVE_BLOCK)
                   => last.post.blocks[i].position = last.pre.blocks[i].position
       /\ last.post.layout = last.pre.layout
       /\ last.post.meta = last.pre.meta
       /\ last.post.background = last.pre.background
       /\ last.post.dimensions = last.pre.dimensions

\* A patch of an add_block that carries an id and a text, followed by an
\* update_style of that id that sets color, applied to a document without blocks
AddThenStyle(call) ==
    /\ call.op = "apply_patch"
    /\ call.pre.blocks = <<>>
    /\ Len(call.patch.operations) = 2
    /\ call.patch.operations[1].operation = ADD_BLOCK
    /\ {"id", "text"} \subseteq DOMAIN call.patch.operations[1].data
    /\ Get(call.patch.operations[1].data, "type", "text") = "text"
    /\ call.patch.operations[2].operation = UPDATE_STYLE
    /\ call.patch.operations[2].block_id = call.patch.operations[1].data.id
    /\ "color" \in DOMAIN call.patch.operations[2].data

\* C8: operations apply in list order: add_block (id, type text, text T)
\* followed by update_style on that id with {color: C}, applied to a document
\* without blocks, yields exactly one block, with text T and style.color C.
C8_AddThenStyle ==
    AddThenStyle(last)
    => /\ Len(last.post.blocks) = 1
       /\ last.post.blocks[1].text = last.patch.operations[1].data.text
       /\ "color" \in DOMAIN last.post.blocks[1].style
       /\ last.post.blocks[1].style.color = last.patch.operations[2].data.color

C8_Witness == AddThenStyle(last)

\* blocks without the first block whose id is block_id
RECURSIVE WithoutFirst(_, _)
WithoutFirst(blocks, block_id) ==
    IF blocks = <<>> THEN <<>>
    ELSE IF Head(blocks).id = block_id THEN Tail(blocks)
         ELSE <<Head(blocks)>> \o WithoutFirst(Tail(blocks), block_id)

\* C9: one delete_block operation removes only the first block whose id
\* matches: the count drops by at most 1 and the other blocks keep their order.
C9_DeleteFirstOnly ==
    (/\ last.op = "apply_patch"
     /\ Len(last.patch.operations) = 1
     /\ last.patch.operations[1].operation = DELETE_BLOCK)
    => /\ Len(last.post.blocks) >= Len(last.pre.blocks) - 1
       /\ last.post.blocks = WithoutFirst(last.pre.blocks, last.patch.operations[1].block_id)

\* C10: no two blocks of a document have the same id.
C10_UniqueBlockIds ==
    \A a \in 1..Len(docs) :
        \A i, j \in 1..Len(docs[a].blocks) :
            docs[a].blocks[i].id = docs[a].blocks[j].id => i = j

\* An operation that looks for a block by id and finds none in blocks
MissingTarget(blocks, op) ==
    /\ op.operation \in {REPLACE_TEXT, UPDATE_STYLE, MOVE_BLOCK, DELETE_BLOCK}
    /\ FirstIndex(blocks, op.block_id) = 0

\* C11: a replace_text, update_style, move_block or delete_block operation
\* whose block id matches no block leaves the document unchanged, and the
\* other operations of the patch are still applied.
C11_MissingTargetTolerated ==
    last.op = "apply_patch"
    => /\ (/\ last.patch.operations # <<>>
           /\ \A k \in 1..Len(last.patch.operations) :
                 MissingTarget(last.pre.blocks, last.patch.operations[k]))
          => last.post = last.pre
       /\ \A k \in 1..Len(last.patch.operations) :
             (/\ Len(last.patch.operations) = 2
              /\ MissingTarget(last.pre.blocks, last.patch.operations[3 - k])
              /\ last.patch.operations[k].operation = CHANGE_LAYOUT)
             => last.post = [last.pre EXCEPT
                                !.layout = Get(last.patch.operations[k].data, "layout", @)]
       /\ (/\ Len(last.patch.operations) = 2
           /\ MissingTarget(last.pre.blocks, last.patch.operations[1])
           /\ last.patch.operations[2].operation = ADD_BLOCK)
          => /\ Len(last.post.blocks) = Len(last.pre.blocks) + 1
             /\ SubSeq(last.post.blocks, 1, Len(last.pre.blocks)) = last.pre.blocks

\* A patch whose first operation found no block and whose second operation
\* changed the layout
C11_Witness ==
    /\ last.op = "apply_patch"
    /\ Len(last.patch.operations) = 2
    /\ MissingTarget(last.pre.blocks, last.patch.operations[1])
    /\ last.patch.operations[2].operation = CHANGE_LAYOUT
    /\ last.post.layout # last.pre.layout

\* The content of the data of a patch operation: the dict objects it refers
\* to replaced by their content
DataValue(data, heap) ==
    [k \in DOMAIN data |->
        IF k \in {"style", "position", "size"} THEN heap[data[k]] ELSE data[k]]

\* The content of a patch
PatchValue(patch, heap) ==
    [patch EXCEPT !.operations =
        [k \in 1..Len(patch.operations) |->
            [patch.operations[k] EXCEPT !.data = DataValue(@, heap)]]]

\* C12: a patch has the same content after apply_patch applied it as when it
\* was constructed, and the patch a version keeps in patch_applied never
\* changes under a later call.
C12_PatchImmutable ==
    [][ /\ last'.op = "apply_patch"
            => \A raw \in RawPatches(MaxOps) :
                  LoadPatch(raw, Store.mem).value = last'.patch
                  => PatchValue(last'.patch, dicts')
                       = PatchValue(LoadPatch(raw, Store.mem).value,
                                    LoadPatch(raw, Store.mem).mem.dicts)
        /\ \A id \in DOMAIN document_versions :
              \A i \in 1..Len(document_versions[id]) :
                 \A j \in 1..Len(document_versions'[id]) :
                    document_versions[id][i].version_id
                        = document_versions'[id][j].version_id
                    => PatchValue(document_versions[id][i].patch_applied, dicts)
                         = PatchValue(document_versions'[id][j].patch_applied, dicts')
      ]_vars

\* The text holds no JSON at all: it is empty or prose only
NoJson(text) == \A k \in 1..Len(text) : text[k].kind = "prose"

\* C13: for every intent, when the AI collaborator returns text that is not
\* JSON, or fails (empty text), get_suggestions raises nothing and returns the
\* fallback Suggestion: confidence 0.5, one variant flagged fallback,
\* recommended_index 0, no patch, a reason saying the AI is unavailable.
C13_FallbackOnUnusableOutput ==
    (reply.op = "get_suggestions" /\ reply.intent \in EditIntents /\ NoJson(reply.response))
    => /\ reply.answer.raised = "none"
       /\ reply.answer.suggestion.intent = reply.intent
       /\ reply.answer.suggestion.confidence = 50
       /\ Len(reply.answer.suggestion.variants) = 1
       /\ "fallback" \in DOMAIN reply.answer.suggestion.variants[1]
       /\ reply.answer.suggestion.variants[1].fallback = TRUE
       /\ Contains("unavailable", lower(reply.answer.suggestion.variants[1].text))
       /\ reply.answer.suggestion.recommended_index = 0
       /\ reply.answer.suggestion.patch = NoPatch
       /\ Contains("unavailable", reply.answer.suggestion.reason)

\* A layout suggestion was asked for and the AI collaborator answered in prose
C13_Witness ==
    /\ reply.op = "get_suggestions"
    /\ reply.intent = LAYOUT_SUGGESTION
    /\ reply.response # <<>>
    /\ NoJson(reply.response)
    /\ reply.answer.suggestion.confidence = 50

\* C14: for every document, every intent and every text the AI collaborator
\* returns, get_suggestions and process_command return a Suggestion and never raise.
C14_NoUnhandledFault ==
    (reply.op \in {"get_suggestions", "process_command"} /\ reply.intent \in EditIntents)
    => /\ reply.answer.raised = "none"
       /\ reply.answer.suggestion.id # Null
       /\ reply.answer.suggestion.intent = reply.intent

\* The text is not JSON but holds a JSON object between stretches of prose
Embedded(text) ==
    /\ Len(text) > 1
    /\ \E k \in 1..Len(text) : text[k].kind = "json" /\ text[k].value.type = "object"

\* C15: when the text is not valid JSON but contains a JSON object, the
\* Suggestion is built from that object and is not the fallback Suggestion.
C15_EmbeddedJsonRecovered ==
    (reply.op = "get_suggestions" /\ reply.intent \in EditIntents /\ Embedded(reply.response))
    => /\ reply.answer.raised = "none"
       /\ ~IsFallback(reply.answer.suggestion)

\* C16: every Suggestion get_suggestions returns has
\* 0 <= recommended_index < number of variants.
C16_RecommendedIndexValid ==
    (reply.op = "get_suggestions" /\ reply.answer.raised = "none")
    => /\ 0 <= reply.answer.suggestion.recommended_index
       /\ reply.answer.suggestion.recommended_index < Len(reply.answer.suggestion.variants)

\* The buckets of the router in their order of priority
Buckets ==
    << [words |-> UrgencyWords, intent |-> CREATIVE_REWRITE],
       [words |-> LocalizationWords, intent |-> LOCALIZATION],
       [words |-> LayoutWords, intent |-> LAYOUT_SUGGESTION],
       [words |-> StyleWords, intent |-> STYLE_SUGGESTION],
       [words |-> CtaWords, intent |-> CTA_OPTIMIZATION],
       [words |-> AbWords, intent |-> AB_GENERATION] >>

\* The command holds a keyword of the k-th bucket
Hits(command, k) == AnyIn(Buckets[k].words, lower(command))

\* C17: _parse_intent routes a command to the intent of the earliest bucket
\* it holds a keyword of, and a command without any keyword to
\* creative-rewrite, with the raw command as the instruction of the context.
C17_RouterPriority ==
    reply.op = "_parse_intent"
    => /\ \A k \in 1..Len(Buckets) :
             (Hits(reply.command, k) /\ \A j \in 1..(k - 1) : ~Hits(reply.command, j))
             => reply.intent = Buckets[k].intent
       /\ (\A k \in 1..Len(Buckets) : ~Hits(reply.command, k))
             => /\ reply.intent = CREATIVE_REWRITE
                /\ reply.context = [instruction |-> reply.command]

\* A command with a style word followed by a layout word was routed to layout
C17_Witness ==
    /\ reply.op = "_parse_intent"
    /\ reply.command = "color left"
    /\ Hits(reply.command, 3) /\ Hits(reply.command, 4)
    /\ reply.intent = LAYOUT_SUGGESTION

\* C18: a command that contains a festival name and no keyword of a bucket
\* before the style bucket is routed to style-suggestion, with a festival
\* name of the command in the context.
C18_FestivalCapture ==
    (/\ reply.op = "_parse_intent"
     /\ \E k \in 1..Len(FestivalNames) : Contains(FestivalNames[k], lower(reply.command))
     /\ \A j \in 1..3 : ~Hits(reply.command, j))
    => /\ reply.intent = STYLE_SUGGESTION
       /\ "festival" \in DOMAIN reply.context
       /\ \E k \in 1..Len(FestivalNames) :
             /\ reply.context.festival = FestivalNames[k]
             /\ Contains(FestivalNames[k], lower(reply.command))

\* The number of versions kept for a document id
HistoryLen(versions, id) == IF id \in DOMAIN versions THEN Len(versions[id]) ELSE 0

\* C19: process_command with auto_apply and a patch applies the patch once
\* (one version more) and returns the patched document with auto_applied true;
\* with auto_apply and no patch it returns the document unchanged, adds no
\* version and auto_applied is false; without auto_apply the document and the
\* version store are unchanged and updated_document is null.
C19_AutoApply ==
    [][ (asks' = asks + 1 /\ reply'.op = "process_command" /\ reply'.answer.raised = "none")
        => /\ (reply'.auto_apply /\ reply'.answer.suggestion.patch.id # Null)
              => /\ reply'.answer.auto_applied
                 /\ HistoryLen(document_versions', reply'.pre.id)
                        = HistoryLen(document_versions, reply'.pre.id) + 1
                 /\ reply'.answer.updated_document = DocValue(docs'[reply'.a], dicts')
                 /\ reply'.answer.updated_document
                        = DocValue(apply_operations(
                                       [doc |-> docs[reply'.a], mem |-> Store.mem],
                                       reply'.answer.suggestion.patch.operations).doc,
                                   apply_operations(
                                       [doc |-> docs[reply'.a], mem |-> Store.mem],
                                       reply'.answer.suggestion.patch.operations).mem.dicts)
           /\ (reply'.auto_apply /\ reply'.answer.suggestion.patch.id = Null)
              => /\ ~reply'.answer.auto_applied
                 /\ reply'.answer.updated_document = reply'.pre
                 /\ DocValue(docs'[reply'.a], dicts') = reply'.pre
                 /\ UNCHANGED <<document_versions, current_version_index>>
           /\ ~reply'.auto_apply
              => /\ ~reply'.answer.auto_applied
                 /\ reply'.answer.updated_document = NoDoc
                 /\ UNCHANGED <<docs, dicts, document_versions, current_version_index>>
      ]_vars

\* A command was processed with auto_apply and its patch changed the document
C19_Witness ==
    /\ reply.op = "process_command"
    /\ reply.auto_apply
    /\ reply.answer.auto_applied
    /\ reply.answer.updated_document # reply.pre
    /\ HistoryLen(document_versions, reply.pre.id) = 1

\* C20: total_suggestions is the number of Suggestions returned that are not
\* the fallback, and suggestions_by_type counts them per intent.
C20_TelemetryTallies ==
    /\ telemetry.total_suggestions = issued.total
    /\ \A i \in EditIntents :
          Get(telemetry.suggestions_by_type, i, 0) = issued.by_intent[i]

\* C21: undo, redo and get_history on a document id that was never saved
\* return None, None and [], and leave the version lists, the cursors and
\* the documents as they were: no entry is created for that id.
C21_UnknownDocumentId ==
    [][ (last'.op \in {"undo", "redo", "get_history"}
         /\ last'.id \notin DOMAIN document_versions)
        => /\ last'.ret = 0
           /\ last'.hist = <<>>
           /\ UNCHANGED <<document_versions, current_version_index, docs, dicts>>
      ]_vars

\* undo was called on an id without history while another document had one
C21_Witness ==
    /\ last.op = "undo"
    /\ last.id \notin DOMAIN document_versions
    /\ document_versions # EmptyDict
    /\ last.ret = 0

\* C22: undo with the cursor at 0 and redo with the cursor at the last index
\* return None and leave cursor and version list unchanged; otherwise undo
\* moves the cursor back by 1, redo forward by 1, each returns the snapshot
\* at the new cursor, and the version list is unchanged.
C22_TerminalStates ==
    [][ (last'.op \in {"undo", "redo"} /\ last'.id \in DOMAIN document_versions)
        => /\ document_versions' = document_versions
           /\ IF \/ last'.op = "undo" /\ current_version_index[last'.id] = 0
                 \/ /\ last'.op = "redo"
                    /\ current_version_index[last'.id]
                          = Len(document_versions[last'.id]) - 1
              THEN /\ last'.ret = 0
                   /\ current_version_index' = current_version_index
              ELSE /\ current_version_index'
                        = [current_version_index EXCEPT ![last'.id] =
                              IF last'.op = "undo" THEN @ - 1 ELSE @ + 1]
                   /\ last'.ret = document_versions[last'.id]
                                     [current_version_index'[last'.id] + 1].document
                   /\ last'.post = Snapshot(document_versions[last'.id]
                                              [current_version_index'[last'.id] + 1],
                                            docs, dicts)
      ]_vars

\* redo was called with the cursor on the last version and returned None
C22_Witness ==
    /\ last.op = "redo"
    /\ last.id \in DOMAIN document_versions
    /\ current_version_index[last.id] = Len(document_versions[last.id]) - 1
    /\ last.ret = 0

\* The structure of DocumentModel.from_dict(doc.to_dict())
RoundTrip(doc, mem) ==
    DocValue(from_dict(to_dict(doc), mem).doc, from_dict(to_dict(doc), mem).mem.dicts)

\* C23: for every DocumentModel D the program holds, from_dict(to_dict(D))
\* is structurally equal to D: same id, same blocks in the same order with
\* equal id, type, text, style, position and size, same layout, meta,
\* background and dimensions.
C23_WireRoundTrip ==
    \A a \in DOMAIN docs : RoundTrip(docs[a], Store.mem) = DocValue(docs[a], dicts)

\* save_version copied (from_dict(doc.to_dict())) a document that has a block
\* with a size of its own, and the copy it stored has the structure of the original
C23_Witness ==
    /\ last.op = "save_version"
    /\ \E i \in 1..Len(last.pre.blocks) :
          last.pre.blocks[i].size # last.pre.blocks[i].position
    /\ Snapshot(document_versions[last.id][current_version_index[last.id] + 1],
                docs, dicts) = last.pre

\* Both threads have returned from save_version
BothSaved == \A t \in Threads : saving.frame[t].pc = "done"

\* The history of the document the threads saved is sound: both versions are
\* in the list, and the cursor is on the last version, the one appended last
SoundHistory(doc_id) ==
    /\ \A t \in Threads :
          saving.frame[t].version.version_id \in VersionIds(document_versions[doc_id])
    /\ current_version_index[doc_id] = Len(document_versions[doc_id]) - 1
    /\ current_version_index[doc_id] >= 0
    /\ document_versions[doc_id][current_version_index[doc_id] + 1].version_id
          = saving.appended

\* C24: when each of two save_version calls on one document id runs to
\* completion before the other starts, both versions are in the list and
\* the cursor is on the version appended last. (That an interleaving of
\* their statements loses a save or misplaces the cursor is the witness.)
C24_SerializedSavesSound ==
    (BothSaved /\ ~saving.overlapped) => SoundHistory(CapDoc.id)

\* The statements of the two calls interleaved, and a save is lost or the
\* cursor is not on the version appended last
C24_Witness ==
    /\ BothSaved
    /\ saving.overlapped
    /\ ~SoundHistory(CapDoc.id)

\* The versions of doc_id a save keeps: those up to the cursor
Kept(doc_id) ==
    IF doc_id \in DOMAIN document_versions
    THEN SubSeq(document_versions[doc_id], 1, current_version_index[doc_id] + 1)
    ELSE <<>>

\* s without its last element
Front(s) == SubSeq(s, 1, Len(s) - 1)

\* C25: after every save_version call, and so after every apply_patch, the
\* cursor is the last index of the version list and the version there is
\* the one just saved (a new version_id, the patch passed, and for
\* save_version the structure the document has);
\* below it are the versions kept, without the oldest when there were
\* already 50, in their order; a redo right after a save returns None.
C25_CursorAfterSave ==
    [][ /\ last'.op \in {"save_version", "apply_patch"}
           => /\ current_version_index'[last'.id] = Len(document_versions'[last'.id]) - 1
              /\ Len(document_versions'[last'.id]) >= 1
              /\ document_versions'[last'.id][Len(document_versions'[last'.id])].version_id
                    \notin VersionIds(Versions(Store, last'.id))
              /\ document_versions'[last'.id][Len(document_versions'[last'.id])].patch_applied
                    = last'.patch
              /\ last'.op = "save_version"
                    => Snapshot(document_versions'[last'.id][Len(document_versions'[last'.id])],
                                docs', dicts') = last'.pre
              /\ Front(document_versions'[last'.id])
                    = IF Len(Kept(last'.id)) >= HistoryLimit
                      THEN Tail(Kept(last'.id)) ELSE Kept(last'.id)
        /\ (last'.op = "redo" /\ last.op \in {"save_version", "apply_patch"}
               /\ last.id = last'.id)
           => last'.ret = 0
      ]_vars

\* A redo came right after a save that had evicted the oldest version, and
\* returned None
C25_Witness ==
    /\ last.op = "redo"
    /\ last.before.call \in {"save_version", "apply_patch"}
    /\ Evicted(last.id)
    /\ Len(document_versions[last.id]) = HistoryLimit
    /\ last.ret = 0

\* C26: applying a patch without add_block operations twice in a row to a
\* document leaves it, after the second application, structurally equal to
\* what the first application produced.
AddFree(patch) ==
    \A k \in 1..Len(patch.operations) : patch.operations[k].operation # ADD_BLOCK

C26_IdempotentReplay ==
    [][ ( /\ last.op = "apply_patch"
          /\ last'.op = "apply_patch"
          /\ last'.doc = last.doc
          /\ PatchValue(last'.patch, dicts') = PatchValue(last.patch, dicts)
          /\ AddFree(last.patch) )
        => last'.post = last.post ]_vars

C26_Witness ==
    /\ last.op = "apply_patch"
    /\ last.before.call = "apply_patch"
    /\ last.before.obj = last.doc
    /\ Len(last.patch.operations) = ReplayOps
    /\ last.patch.operations[1].operation = REPLACE_TEXT
    /\ last.patch.operations[2].operation = MOVE_BLOCK
    /\ last.before.pre # last.pre
    /\ Len(last.pre.blocks) > 0
    /\ "x" \in DOMAIN last.pre.blocks[1].position
    /\ last.pre.blocks[1].text = "Hurry"
    /\ last.pre.blocks[1].position.x = "10"
    /\ last.post = last.pre

\* The structures of the documents stored in the versions of doc_id
SnapshotsOf(versions, docheap, dictheap) ==
    [k \in 1..Len(versions) |-> Snapshot(versions[k], docheap, dictheap)]

BlockIds(doc) == {doc.blocks[k].id : k \in 1..Len(doc.blocks)}

\* C28: when get_suggestions returns a Suggestion with a patch, the patch has
\* at least one operation, every operation is replace_text, update_style or
\* move_block, and every operation names a block of the document passed;
\* get_suggestions changes neither that document nor the version store.
C28_DerivedPatchTargets ==
    [][ (asks' = asks + 1 /\ reply'.op = "get_suggestions")
        => /\ UNCHANGED <<docs, dicts, document_versions, current_version_index>>
           /\ (reply'.answer.raised = "none" /\ reply'.answer.suggestion.patch.id # Null)
              => /\ Len(reply'.answer.suggestion.patch.operations) > 0
                 /\ \A k \in 1..Len(reply'.answer.suggestion.patch.operations) :
                       /\ reply'.answer.suggestion.patch.operations[k].operation
                             \in {REPLACE_TEXT, UPDATE_STYLE, MOVE_BLOCK}
                       /\ reply'.answer.suggestion.patch.operations[k].block_id
                             \in BlockIds(reply'.pre) ]_vars

\* A layout suggestion for a document of two blocks, whose patch moves the
\* one block the recommended layout places
C28_Witness ==
    /\ reply.op = "get_suggestions"
    /\ reply.intent = LAYOUT_SUGGESTION
    /\ reply.answer.raised = "none"
    /\ Len(reply.pre.blocks) = 2
    /\ Len(reply.answer.suggestion.patch.operations) = 1
    /\ reply.answer.suggestion.patch.operations[1].operation = MOVE_BLOCK
    /\ reply.answer.suggestion.patch.operations[1].block_id = "b1"

\* C29: after any sequence of get_suggestions, accept_suggestion and
\* reject_suggestion calls, accepted_suggestions + rejected_suggestions is
\* at most total_suggestions, the acceptance rate get_telemetry reports is at
\* most 1, and it is 0 whenever total_suggestions is 0.
C29_TelemetryConsistent ==
    /\ telemetry.accepted_suggestions + telemetry.rejected_suggestions
          <= telemetry.total_suggestions
    /\ reply.op = "get_telemetry"
          => /\ reply.answer.acceptance_rate.num <= reply.answer.acceptance_rate.den
             /\ reply.answer.total_suggestions = 0
                   => reply.answer.acceptance_rate.num = 0

\* C30: when process_command routes a command to the localization intent
\* and the router put a target locale in the context, the Suggestion returned
\* has that locale and its recommended variant is the variant of that
\* language, whatever locale the caller passed.
C30_RoutedLocaleHonoured ==
    (/\ reply.op = "process_command"
     /\ reply.intent = LOCALIZATION
     /\ "target_locale" \in DOMAIN reply.context
     /\ reply.answer.raised = "none"
     /\ ~IsFallback(reply.answer.suggestion))
    => /\ reply.answer.suggestion.locale = reply.context.target_locale
       /\ reply.answer.suggestion.variants[
              reply.answer.suggestion.recommended_index + 1].language
             = reply.context.target_locale

====
